---- MODULE Spec2Model ----
(***************************************************************************)
(* A model of bob-bar's research core: the shared vector memory            *)
(* (shared_memory.rs), the per-worker dynamic context                      *)
(* (dynamic_context.rs), the research orchestrator (research.rs), the      *)
(* tool-calling loop of the LM client (ollama.rs), the HTTP status policy  *)
(* of the tool executor and the executor shared by the clients (tools.rs). *)
(*                                                                         *)
(* Each subsystem has its own specification over its own variables; the    *)
(* variables of the other subsystems stay at their initial values.         *)
(***************************************************************************)
EXTENDS Integers, Sequences, FiniteSets, TLC

VARIABLES
    \* ---- shared memory (shared_memory.rs) ----
    memories,        \* rows of table memories
    vec_memories,    \* rows of virtual table vec_memories
    db,              \* holder of the connection mutex, or NoTask
    mtask,           \* per client task: the call it is in and its locals
    calls,           \* number of SharedMemory calls started so far
    now,             \* wall clock, in seconds
    cleared,         \* clear() has returned and no row was inserted since
    \* ---- a worker's dynamic context (dynamic_context.rs) ----
    dctx,            \* the DynamicContext object
    prompt,          \* the last build_prompt_context call: receiver and result
    ctx_ops,         \* number of DynamicContext methods called so far
    ctx_log,         \* what the methods called so far were asked to do
    \* ---- a research session (research.rs, main.rs) ----
    orch,            \* research() and execute_workers_with_refinement: locals
    sup,             \* the supervisor task: position and locals
    tasks,           \* spawned tasks that are still running, by kind
    chan,            \* the result channel and the gap channel
    smem,            \* what the session's shared memory holds
    hist,            \* what the session has produced so far
    \* ---- the refinement loop of a session (research.rs) ----
    refn,            \* refinement_loop: position, locals and what it called
    \* ---- one query of the LM client (ollama.rs) ----
    lm,              \* query_internal_with_iterations: position and locals
    folded,          \* the tool results folded so far, in order
    \* ---- one call of an HTTP tool (tools.rs) ----
    http,            \* the tool called, the response status and the outcome
    \* ---- the tool executor shared by the LM clients (tools.rs, ollama.rs) ----
    exec,            \* the ToolExecutor: its mutex, query_id, tool_usage
    tool_calls,      \* rows of table tool_calls, in insertion order
    client,          \* per LM client: the tool call it is in and its locals
    rsess,           \* the research sessions started and the memories stored
    rate_log,        \* per rate-limit key: the delays computed in its window
    exec_calls,      \* number of tool calls parsed so far
    \* ---- one chat request of the LM client (ollama.rs) ----
    chat,            \* the retry loop: attempt, sleeps made, errors printed
    \* ---- the document loop of a session (research.rs) ----
    doc,             \* document_writing_loop: position, locals and calls made
    \* ---- the result channel of a dispatch (research.rs) ----
    disp,            \* the loop's locals, the channel and the progress memories
    \* ---- the reader of an MCP response (tools.rs) ----
    mcp_read,        \* read_mcp_response: the lines read so far and the result
    \* ---- the tool calls of one reply of the model (ollama.rs) ----
    parse,           \* the parse loop of one reply: position, flag and the calls executed
    \* ---- the workers that share the tool executor (research.rs, tools.rs) ----
    agents,          \* the workers of a session on the one tool executor
    \* ---- concurrent calls of one MCP server (tools.rs, ollama.rs, main.rs) ----
    mcp,             \* the callers of one MCP server's pipe
    \* ---- the mutexes and the tasks that take them ----
    locks            \* the tasks of a session on the four mutexes

memVars == <<memories, vec_memories, db, mtask, calls, now, cleared>>
ctxVars == <<dctx, prompt, ctx_ops, ctx_log>>
resVars == <<orch, sup, tasks, chan, smem, hist>>
lmVars == <<lm, folded>>
httpVars == <<http>>
refVars == <<refn>>
toolVars == <<exec, tool_calls, client, rsess, rate_log, exec_calls>>
chatVars == <<chat>>
docVars == <<doc>>
dispVars == <<disp>>
mcpReadVars == <<mcp_read>>
parseVars == <<parse>>
agentVars == <<agents>>
mcpVars == <<mcp>>
lockVars == <<locks>>

vars == <<memVars, ctxVars, resVars, lmVars, httpVars, refVars, toolVars, chatVars, docVars, dispVars, mcpReadVars, parseVars, agentVars, mcpVars, lockVars>>

\* the variables each subsystem leaves alone
notMem == <<ctxVars, resVars, lmVars, httpVars, refVars, toolVars, chatVars, docVars, dispVars, mcpReadVars, parseVars, agentVars, mcpVars, lockVars>>
notCtx == <<memVars, resVars, lmVars, httpVars, refVars, toolVars, chatVars, docVars, dispVars, mcpReadVars, parseVars, agentVars, mcpVars, lockVars>>
notRes == <<memVars, ctxVars, lmVars, httpVars, refVars, toolVars, chatVars, docVars, dispVars, mcpReadVars, parseVars, agentVars, mcpVars, lockVars>>
notLm == <<memVars, ctxVars, resVars, httpVars, refVars, toolVars, chatVars, docVars, dispVars, mcpReadVars, parseVars, agentVars, mcpVars, lockVars>>
notRef == <<memVars, ctxVars, resVars, lmVars, httpVars, toolVars, chatVars, docVars, dispVars, mcpReadVars, parseVars, agentVars, mcpVars, lockVars>>
notTool == <<memVars, ctxVars, resVars, lmVars, httpVars, refVars, chatVars, docVars, dispVars, mcpReadVars, parseVars, agentVars, mcpVars, lockVars>>
notHttp == <<memVars, ctxVars, resVars, lmVars, refVars, toolVars, chatVars, docVars, dispVars, mcpReadVars, parseVars, agentVars, mcpVars, lockVars>>
notChat == <<memVars, ctxVars, resVars, lmVars, httpVars, refVars, toolVars, docVars, dispVars, mcpReadVars, parseVars, agentVars, mcpVars, lockVars>>
notDoc == <<memVars, ctxVars, resVars, lmVars, httpVars, refVars, toolVars, chatVars, dispVars, mcpReadVars, parseVars, agentVars, mcpVars, lockVars>>
notDisp == <<memVars, ctxVars, resVars, lmVars, httpVars, refVars, toolVars, chatVars, docVars, mcpReadVars, parseVars, agentVars, mcpVars, lockVars>>
notMcpRead == <<memVars, ctxVars, resVars, lmVars, httpVars, refVars, toolVars, chatVars, docVars, dispVars, parseVars, agentVars, mcpVars, lockVars>>
notParse == <<memVars, ctxVars, resVars, lmVars, httpVars, refVars, toolVars, chatVars, docVars, dispVars, mcpReadVars, agentVars, mcpVars, lockVars>>
notAgents == <<memVars, ctxVars, resVars, lmVars, httpVars, refVars, toolVars, chatVars, docVars, dispVars, mcpReadVars, parseVars, mcpVars, lockVars>>
notMcp == <<memVars, ctxVars, resVars, lmVars, httpVars, refVars, toolVars, chatVars, docVars, dispVars, mcpReadVars, parseVars, agentVars, lockVars>>
notLocks == <<memVars, ctxVars, resVars, lmVars, httpVars, refVars, toolVars, chatVars, docVars, dispVars, mcpReadVars, parseVars, agentVars, mcpVars>>

(***************************************************************************)
(* Bounds of the model                                                     *)
(***************************************************************************)
MaxCalls == 3
MaxCtxOps == 4
MaxDiscoveries == 4
MaxPlan == 5
MaxGapReply == 4
MaxFollowUps == 1
MaxToolTurns == 3
MaxToolCalls == 2
MaxRefinements == 3
MaxFailures == 1
MaxSessions == 2
MaxToolExecs == 2
MaxRateCalls == 6
MaxDocIterations == 3
MaxDispatched == 3
MaxLines == 13
MaxItems == 2
MaxAgentCalls == 2
MaxMcpCalls == 2
MaxDebugLines == 1
MaxRuns == 1

(***************************************************************************)
(* Shared memory: shared_memory.rs                                         *)
(***************************************************************************)
NoTask == "none"
NoQid == "none"
NoId == 0

MemTasks == {"t1", "t2"}

\* the texts a caller stores
Contents == {"a", "b"}

\* embedding_dimensions of the configuration, and a length the embedding
\* model may return instead (embeddings.rs returns the vector unchecked)
embedding_dimensions == 2
OtherDimension == 3
Dimensions == {embedding_dimensions, OtherDimension}

\* (memory_type, created_by, query_id) of the callers of store_memory:
\* the Plan (research.rs:279), a worker's discovery (tools.rs memory_store)
StoreCallers ==
    { [memory_type |-> "plan", created_by |-> "lead_researcher", query_id |-> "q1",
       content |-> "a"],
      [memory_type |-> "discovery", created_by |-> "web_researcher", query_id |-> "q1",
       content |-> "b"] }

\* the callers of update_or_store_memory: supervisor feedback
\* (research.rs:1150), with and without a query_id in the metadata
UpdateCallers ==
    { [memory_type |-> "feedback", created_by |-> "supervisor", query_id |-> "q1"],
      [memory_type |-> "feedback", created_by |-> "supervisor", query_id |-> NoQid] }

\* the memory types get_stats counts, in its order
MemoryTypes ==
    {"discovery", "insight", "deadend", "query_result", "plan", "feedback", "context"}

\* the stats field of a task that holds no MemoryStats
NoStats == [total_count |-> 0 - 1, by_type |-> [mt \in MemoryTypes |-> 0]]

IdleTask ==
    [pc |-> "idle", memory_type |-> "none", content |-> "none",
     created_by |-> "none", query_id |-> NoQid, dim |-> 0,
     id |-> NoId, ret |-> "none", ret_id |-> NoId,
     stats |-> NoStats, after_clear |-> FALSE]

\* a call has returned: the task is idle again and holds the result
Returned(r, id) == [IdleTask EXCEPT !.ret = r, !.ret_id = id]

MemIds == {m.id : m \in memories}
VecIds == {v.memory_id : v \in vec_memories}

MaxOf(S) == CHOOSE x \in S : \A y \in S : y <= x

\* db.last_insert_rowid() after INSERT INTO memories: id INTEGER PRIMARY KEY
\* is an alias of the rowid, which SQLite assigns as the largest rowid + 1
NextRowid == IF memories = {} THEN 1 ELSE MaxOf(MemIds) + 1

\* the vec0 column is declared embedding FLOAT[embedding_dimensions]: a
\* vector of another length is rejected by the statement
VecStatementFails(dim) == dim # embedding_dimensions

\* SELECT id FROM memories WHERE memory_type = ?1 AND created_by = ?2
\*   AND json_extract(metadata, '$.query_id') = ?3
MatchingIds(mt, by, qid) ==
    {m.id : m \in {r \in memories :
                     /\ r.memory_type = mt
                     /\ r.created_by = by
                     /\ r.query_id = qid}}

\* get_by_type: the rows of one type, in rowid order
RECURSIVE SortById(_)
SortById(S) ==
    IF S = {} THEN <<>>
    ELSE LET m == CHOOSE x \in S : \A y \in S : x.id <= y.id
         IN <<m>> \o SortById(S \ {m})

get_by_type(mt) == SortById({m \in memories : m.memory_type = mt})

\* SystemTime::now() read by a call, in seconds: the clock does not go back,
\* and two calls may read the same second
Seconds == {0, 1}
ClockReadings == {s \in Seconds : s >= now}

\* the row INSERT INTO memories adds
InsertedRow(a, c, ts) ==
    [id |-> NextRowid, memory_type |-> a.memory_type, content |-> c,
     query_id |-> a.query_id, created_by |-> a.created_by, created_at |-> ts]

\* a store that has inserted a row when the embedding turns out to fail
EmbeddingErrorAfterInsert(t) ==
    /\ mtask' = [mtask EXCEPT ![t] = Returned("embedding error", NoId)]
    /\ memories' = memories \cup
          {[id |-> NextRowid, memory_type |-> "plan", content |-> "a",
            query_id |-> "q1", created_by |-> "lead_researcher", created_at |-> now]}
    /\ UNCHANGED <<db, now, cleared>>

\* generate_embedding(..).await? returns the error of the embedding service
\* before any statement is run
EmbeddingError(t) ==
    /\ mtask' = [mtask EXCEPT ![t] = Returned("embedding error", NoId)]
    /\ UNCHANGED <<memories, db, now, cleared>>

\* store_memory from its first line to the first statement under the lock:
\* generate_embedding(..).await? (outside the lock), SystemTime::now(),
\* self.db.lock().await, INSERT INTO memories, last_insert_rowid()
StoreInsertMemory(t, a, c) ==
    \/ EmbeddingError(t)
    \/ /\ db = NoTask
       /\ cleared' = FALSE
       /\ \E d \in Dimensions, ts \in ClockReadings :
            /\ memories' = memories \cup {InsertedRow(a, c, ts)}
            /\ mtask' = [mtask EXCEPT ![t] =
                           [IdleTask EXCEPT !.pc = "st_vec", !.content = c, !.dim = d,
                                            !.id = NextRowid]]
            /\ now' = ts
       /\ db' = t

\* a task calls store_memory
store_memory(t) ==
    /\ UNCHANGED notMem
    /\ mtask[t].pc = "idle"
    /\ calls < MaxCalls
    /\ \E a \in StoreCallers : StoreInsertMemory(t, a, a.content)
    /\ calls' = calls + 1
    /\ UNCHANGED vec_memories

\* INSERT INTO vec_memories ...?; drop(db); Ok(id)
StoreInsertVec(t) ==
    /\ UNCHANGED notMem
    /\ mtask[t].pc = "st_vec"
    /\ db = t
    /\ IF VecStatementFails(mtask[t].dim)
       THEN /\ vec_memories' = vec_memories
            /\ mtask' = [mtask EXCEPT ![t] = Returned("err", NoId)]
       ELSE /\ vec_memories' = vec_memories \cup
                 {[memory_id |-> mtask[t].id, embedding |-> mtask[t].content]}
            /\ mtask' = [mtask EXCEPT ![t] = Returned("ok", mtask[t].id)]
    /\ db' = NoTask
    /\ UNCHANGED <<memories, calls, now, cleared>>

\* ---- update_or_store_memory ----
\* the ids the SELECT ... LIMIT 1 may return: none without a query_id
ExistingIds(a) ==
    IF a.query_id = NoQid THEN {}
    ELSE MatchingIds(a.memory_type, a.created_by, a.query_id)

\* a task calls update_or_store_memory: lock; SELECT id ... LIMIT 1;
\* drop(db). Which matching row LIMIT 1 returns is not fixed by the statement
update_or_store_memory(t) ==
    /\ UNCHANGED notMem
    /\ mtask[t].pc = "idle"
    /\ calls < MaxCalls
    /\ db = NoTask
    /\ \E a \in UpdateCallers, c \in Contents :
         IF ExistingIds(a) = {}
         THEN mtask' = [mtask EXCEPT ![t] =
                          [IdleTask EXCEPT !.pc = "uo_store", !.content = c,
                                           !.memory_type = a.memory_type,
                                           !.created_by = a.created_by,
                                           !.query_id = a.query_id]]
         ELSE \E id \in ExistingIds(a) :
                mtask' = [mtask EXCEPT ![t] =
                            [IdleTask EXCEPT !.pc = "uo_update", !.content = c,
                                             !.memory_type = a.memory_type,
                                             !.created_by = a.created_by,
                                             !.query_id = a.query_id, !.id = id]]
    /\ calls' = calls + 1
    /\ UNCHANGED <<memories, vec_memories, db, now, cleared>>

\* no existing memory found: self.store_memory(..).await
UpdateOrStoreInsert(t) ==
    /\ UNCHANGED notMem
    /\ mtask[t].pc = "uo_store"
    /\ StoreInsertMemory(t, [memory_type |-> mtask[t].memory_type,
                             created_by |-> mtask[t].created_by,
                             query_id |-> mtask[t].query_id], mtask[t].content)
    /\ UNCHANGED <<vec_memories, calls>>

\* an UPDATE that touches no row
RowsLeftAlone(id, c, qid, ts) == memories

\* the rows after UPDATE memories SET content, metadata, created_at WHERE id
UpdatedRows(id, c, qid, ts) ==
    {IF m.id = id
     THEN [m EXCEPT !.content = c, !.query_id = qid, !.created_at = ts]
     ELSE m : m \in memories}

\* existing memory found: generate_embedding(..).await?, SystemTime::now(),
\* lock, UPDATE memories
UpdateMemoryRow(t) ==
    /\ UNCHANGED notMem
    /\ mtask[t].pc = "uo_update"
    /\ \/ EmbeddingError(t)
       \/ /\ db = NoTask
          /\ \E d \in Dimensions, ts \in ClockReadings :
               /\ memories' = UpdatedRows(mtask[t].id, mtask[t].content,
                                          mtask[t].query_id, ts)
               /\ mtask' = [mtask EXCEPT ![t].pc = "uo_vec", ![t].dim = d]
               /\ now' = ts
          /\ db' = t
    /\ UNCHANGED <<vec_memories, calls, cleared>>

\* UPDATE vec_memories SET embedding WHERE memory_id = ?2; drop(db); Ok(id)
UpdateVecRow(t) ==
    /\ UNCHANGED notMem
    /\ mtask[t].pc = "uo_vec"
    /\ db = t
    /\ IF VecStatementFails(mtask[t].dim) /\ mtask[t].id \in VecIds
       THEN /\ vec_memories' = vec_memories
            /\ mtask' = [mtask EXCEPT ![t] = Returned("err", NoId)]
       ELSE /\ vec_memories' =
                 {IF v.memory_id = mtask[t].id
                  THEN [v EXCEPT !.embedding = mtask[t].content]
                  ELSE v : v \in vec_memories}
            /\ mtask' = [mtask EXCEPT ![t] = Returned("ok", mtask[t].id)]
    /\ db' = NoTask
    /\ UNCHANGED <<memories, calls, now, cleared>>

\* ---- clear ----
\* a statement that leaves the rows of a table as they are
DeleteNothing(rows) == rows

\* DELETE FROM <table> without a WHERE clause: the rows left in the table
DeleteFrom(rows) == {}

\* a task calls clear: lock; DELETE FROM memories
clear(t) ==
    /\ UNCHANGED notMem
    /\ mtask[t].pc = "idle"
    /\ calls < MaxCalls
    /\ db = NoTask
    /\ db' = t
    /\ memories' = DeleteFrom(memories)
    /\ mtask' = [mtask EXCEPT ![t] = [IdleTask EXCEPT !.pc = "cl_vec"]]
    /\ calls' = calls + 1
    /\ UNCHANGED <<vec_memories, now, cleared>>

\* DELETE FROM vec_memories; Ok(())
ClearVec(t) ==
    /\ UNCHANGED notMem
    /\ mtask[t].pc = "cl_vec"
    /\ db = t
    /\ vec_memories' = DeleteFrom(vec_memories)
    /\ db' = NoTask
    /\ mtask' = [mtask EXCEPT ![t] = Returned("ok", NoId)]
    /\ cleared' = TRUE
    /\ UNCHANGED <<memories, calls, now>>

\* ---- a reader: get_by_type takes the lock and reads memories ----
MemReadByType(t) ==
    /\ UNCHANGED notMem
    /\ mtask[t].pc = "idle"
    /\ calls < MaxCalls
    /\ db = NoTask
    /\ \E mt \in {"feedback", "discovery"} :
         mtask' = [mtask EXCEPT ![t] = Returned("rows", Len(get_by_type(mt)))]
    /\ calls' = calls + 1
    /\ UNCHANGED <<memories, vec_memories, db, now, cleared>>


\* ---- get_stats ----
\* SELECT COUNT(*) FROM memories, and the same WHERE memory_type = ?1 for
\* each of the seven types
MemoryStats ==
    [total_count |-> Cardinality(memories),
     by_type |-> [mt \in MemoryTypes |->
                    Cardinality({m \in memories : m.memory_type = mt})]]

\* a task calls get_stats: the lock is held over all eight queries
get_stats(t) ==
    /\ UNCHANGED notMem
    /\ mtask[t].pc = "idle"
    /\ calls < MaxCalls
    /\ db = NoTask
    /\ mtask' = [mtask EXCEPT ![t] =
                   [Returned("stats", NoId) EXCEPT !.stats = MemoryStats,
                                                   !.after_clear = cleared]]
    /\ calls' = calls + 1
    /\ UNCHANGED <<memories, vec_memories, db, now, cleared>>
(***************************************************************************)
(* Dynamic context: dynamic_context.rs                                     *)
(***************************************************************************)
None == <<>>
Some(x) == <<x>>

Min(a, b) == IF a <= b THEN a ELSE b

\* Vec::reverse and Iterator::take
Reverse(s) == [i \in 1..Len(s) |-> s[Len(s) + 1 - i]]
Take(s, n) == SubSeq(s, 1, Min(n, Len(s)))

\* slice::last
Last(s) == IF s = <<>> THEN None ELSE Some(s[Len(s)])

\* DynamicContext::new
DynamicContextNew(sm) ==
    [iteration |-> 0, working_notes |-> <<>>, state |-> {},
     shared_memory |-> sm, last_memory_sync |-> 0]

\* "=== Research Plan (by {created_by}) ===\n{content}"
PlanSection(p) ==
    [kind |-> "plan", items |-> <<[content |-> p.content, created_by |-> p.created_by]>>]

\* "=== Leader Feedback & Adjustments ===" with one "• {content} (by {created_by})"
\* line per item
FeedbackSection(items) ==
    [kind |-> "feedback",
     items |-> [i \in 1..Len(items) |->
                  [content |-> items[i].content, created_by |-> items[i].created_by]]]

\* "=== Recent findings from other agents ===" with one
\* "• [{memory_type}] {content} (by {created_by})" line per finding
FindingsSection(items) ==
    [kind |-> "findings",
     items |-> [i \in 1..Len(items) |->
                  [memory_type |-> items[i].memory_type, content |-> items[i].content,
                   created_by |-> items[i].created_by]]]

\* the sections sync_from_shared_memory collects from the memory
MemorySections ==
    LET plans == get_by_type("plan")
        feedback_items == Reverse(get_by_type("feedback"))
        all_findings == Take(Reverse(get_by_type("discovery")), 3)
                        \o Take(Reverse(get_by_type("insight")), 2)
                        \o Take(Reverse(get_by_type("deadend")), 2)
    IN  (IF Last(plans) = None THEN <<>> ELSE <<PlanSection(Last(plans)[1])>>)
        \o (IF feedback_items = <<>> THEN <<>> ELSE <<FeedbackSection(feedback_items)>>)
        \o (IF all_findings = <<>> THEN <<>> ELSE <<FindingsSection(all_findings)>>)

\* sync_from_shared_memory: the receiver afterwards and the Option returned
sync_from_shared_memory(c) ==
    IF c.last_memory_sync >= c.iteration
    THEN [ctx |-> c, out |-> None]
    ELSE IF c.shared_memory
         THEN [ctx |-> [c EXCEPT !.last_memory_sync = c.iteration],
               out |-> IF MemorySections = <<>> THEN None ELSE Some(MemorySections)]
         ELSE [ctx |-> c, out |-> None]

\* "=== Your working notes ===" with one
\* "[Iteration {iteration}, {note_type}] {content}" line per note
NotesSection(c) ==
    IF c.working_notes = <<>> THEN <<>>
    ELSE <<[kind |-> "notes", items |-> c.working_notes]>>

\* "=== State ===" with one "{k}: {v}" line per entry
StateSection(c) ==
    IF c.state = {} THEN <<>> ELSE <<[kind |-> "state", items |-> c.state]>>

\* build_prompt_context: the receiver afterwards and the text returned, as
\* the sequence of the sections that are joined
build_prompt_context(c) ==
    LET s == sync_from_shared_memory(c)
    IN  [ctx |-> s.ctx,
         text |-> <<[kind |-> "global"], [kind |-> "task"]>>
                  \o (IF s.out = None THEN <<>> ELSE s.out[1])
                  \o NotesSection(c)
                  \o StateSection(c)]

NoteTypes == {"Observation", "ToolResult"}
StateKeys == {"k1", "k2"}
StateValues == {"v1", "v2"}

\* what was done to the context since DynamicContext::new: the number of
\* next_iteration calls, the notes added since the last clear_notes with the
\* number of next_iteration calls before each, and the last value set per key
NewLog ==
    [iterations |-> 0, notes |-> <<>>, last_set |-> [k \in StateKeys |-> "unset"]]

\* a note tagged with iteration 0 whatever the counter is
UntaggedNote(c, content, note_type) ==
    [content |-> content, note_type |-> note_type, iteration |-> 0]

\* add_note: WorkingNote { content, note_type, iteration: self.iteration }
WorkingNote(c, content, note_type) ==
    [content |-> content, note_type |-> note_type, iteration |-> c.iteration]

\* get_notes: &self.working_notes
get_notes(c) == c.working_notes

\* get_state: self.state.get(key)
get_state(c, key) ==
    IF \E e \in c.state : e[1] = key
    THEN Some((CHOOSE e \in c.state : e[1] = key)[2])
    ELSE None

\* execute_worker: DynamicContext::new(question, prompt, shared_memory), then
\* execute_worker_with_dynamic_context calls build_prompt_context once
execute_worker_context(sm) ==
    /\ ctx_ops < MaxCtxOps
    /\ LET r == build_prompt_context(DynamicContextNew(sm))
       IN  /\ dctx' = r.ctx
           /\ prompt' = [caller |-> "execute_worker", ctx |-> DynamicContextNew(sm),
                         text |-> r.text]
    /\ ctx_ops' = ctx_ops + 1
    /\ ctx_log' = NewLog
    /\ UNCHANGED notCtx

\* a holder of the context calls next_iteration
next_iteration ==
    /\ ctx_ops < MaxCtxOps
    /\ dctx' = [dctx EXCEPT !.iteration = @ + 1]
    /\ ctx_ops' = ctx_ops + 1
    /\ ctx_log' = [ctx_log EXCEPT !.iterations = @ + 1]
    /\ UNCHANGED <<prompt, notCtx>>

\* add_note(content, note_type)
add_note ==
    /\ ctx_ops < MaxCtxOps
    /\ \E nt \in NoteTypes :
         /\ dctx' = [dctx EXCEPT !.working_notes =
                       Append(@, WorkingNote(dctx, "n", nt))]
         /\ ctx_log' = [ctx_log EXCEPT !.notes =
                          Append(@, [content |-> "n", note_type |-> nt,
                                     iteration |-> ctx_log.iterations])]
    /\ ctx_ops' = ctx_ops + 1
    /\ UNCHANGED <<prompt, notCtx>>

\* clear_notes
clear_notes ==
    /\ ctx_ops < MaxCtxOps
    /\ dctx.working_notes # <<>>
    /\ dctx' = [dctx EXCEPT !.working_notes = <<>>]
    /\ ctx_ops' = ctx_ops + 1
    /\ ctx_log' = [ctx_log EXCEPT !.notes = <<>>]
    /\ UNCHANGED <<prompt, notCtx>>

\* set_state(key, value): HashMap::insert replaces the value of the key
set_state ==
    /\ ctx_ops < MaxCtxOps
    /\ \E k \in StateKeys, v \in StateValues :
         /\ dctx' = [dctx EXCEPT !.state = {e \in @ : e[1] # k} \cup {<<k, v>>}]
         /\ ctx_log' = [ctx_log EXCEPT !.last_set[k] = v]
    /\ ctx_ops' = ctx_ops + 1
    /\ UNCHANGED <<prompt, notCtx>>

\* a holder of the context calls build_prompt_context
BuildPromptContext ==
    /\ ctx_ops < MaxCtxOps
    /\ LET r == build_prompt_context(dctx)
       IN  /\ dctx' = r.ctx
           /\ prompt' = [caller |-> "holder", ctx |-> dctx, text |-> r.text]
    /\ ctx_ops' = ctx_ops + 1
    /\ UNCHANGED <<ctx_log, notCtx>>

\* the memory a worker finds: rows stored earlier in the same query, with
\* rowids in insertion order and an embedding row each
Texts == <<"x1", "x2", "x3", "x4", "x5", "x6", "x7", "x8", "x9", "x10", "x11",
           "x12", "x13", "x14", "x15", "x16">>

RowsOfType(mt, by, first, n) ==
    {[id |-> first + i, memory_type |-> mt, content |-> Texts[first + i], query_id |-> "q1",
      created_by |-> by, created_at |-> 0] : i \in 1..n}

StoredMemory(np, nf, nd, ni, ne) ==
    RowsOfType("plan", "lead_researcher", 0, np)
    \cup RowsOfType("feedback", "supervisor", np, nf)
    \cup RowsOfType("discovery", "web_researcher", np + nf, nd)
    \cup RowsOfType("insight", "web_researcher", np + nf + nd, ni)
    \cup RowsOfType("deadend", "web_researcher", np + nf + nd + ni, ne)

(***************************************************************************)
(* Research session: research.rs, main.rs                                  *)
(***************************************************************************)
\* config.agents.workers: each worker has a name and a role
Workers ==
    <<[name |-> "Web Researcher", role |-> "web_researcher"],
      [name |-> "data_specialist", role |-> "data_specialist"]>>

WorkerNames == {Workers[i].name : i \in 1..Len(Workers)}

\* config.config.max_worker_count
max_worker_count == 5

\* the "worker" strings a language model may write in its JSON replies:
\* a role, a role that is also a name, a part of a name, none of these
WorkerStrings == {"web_researcher", "data_specialist", "researcher", "chemist"}

\* name.to_lowercase().contains(&s.to_lowercase())
LowerContains(name, s) ==
    <<name, s>> \in {<<"Web Researcher", "researcher">>,
                     <<"data_specialist", "data_specialist">>}

\* workers.iter().find(..): the first of the workers at these positions
find(positions) ==
    IF positions = {} THEN None
    ELSE Some(Workers[CHOOSE i \in positions : \A j \in positions : i <= j])

\* parse_plan: find the worker by role, or else by a name that contains the
\* string
FindByRole(w) ==
    LET by_role == find({i \in 1..Len(Workers) : Workers[i].role = w})
    IN  IF by_role # None THEN by_role
        ELSE find({i \in 1..Len(Workers) : LowerContains(Workers[i].name, w)})

\* parse_plan: Err when some assignment names no worker, else the
\* SubQuestions with assigned_worker = worker.name
parse_plan(assignments) ==
    IF \E i \in 1..Len(assignments) : FindByRole(assignments[i]) = None
    THEN [ok |-> FALSE, sub_questions |-> <<>>]
    ELSE [ok |-> TRUE,
          sub_questions |-> [i \in 1..Len(assignments) |->
                               [assigned_worker |-> FindByRole(assignments[i])[1].name]]]

\* the dispatcher's lookup: workers.iter().find(|w| w.name == assigned_worker)
FindByName(sub_q) ==
    find({i \in 1..Len(Workers) : Workers[i].name = sub_q.assigned_worker})

\* the SubQuestions of a sequence that have a worker
Dispatchable(sub_questions) ==
    SelectSeq(sub_questions, LAMBDA q : FindByName(q) # None)

\* a limit that ignores the room left under max_worker_count
GapLimitOfThree(initial_worker_count) == 3

\* supervisor_loop: .take((max_worker_count - initial_worker_count).min(3))
GapLimit(initial_worker_count) == Min(max_worker_count - initial_worker_count, 3)

\* supervisor_loop: the gap SubQuestions made of the reply's assignments
gap_questions(gap_assignments, initial_worker_count) ==
    LET taken == Take(Take(gap_assignments, 3), GapLimit(initial_worker_count))
    IN  [i \in 1..Len(taken) |-> [assigned_worker |-> taken[i]]]

\* generate_follow_up_questions_static: one SubQuestion per assignment
follow_up_questions(assignments) ==
    [i \in 1..Len(assignments) |-> [assigned_worker |-> assignments[i]]]

\* the condition of the gap detection without the one-shot latch
GapDetectionDueUnlatched(gap_workers_requested, completed_count, midpoint_threshold, initial_worker_count) ==
    /\ completed_count >= midpoint_threshold
    /\ completed_count > 0
    /\ initial_worker_count < max_worker_count

\* a condition of the gap detection that does not wait for the midpoint
GapDetectionDueAtOnce(gap_workers_requested, completed_count, midpoint_threshold, initial_worker_count) ==
    /\ ~gap_workers_requested
    /\ initial_worker_count < max_worker_count

\* supervisor_loop: the condition of the gap detection
GapDetectionDue(gap_workers_requested, completed_count, midpoint_threshold, initial_worker_count) ==
    /\ ~gap_workers_requested
    /\ completed_count >= midpoint_threshold
    /\ completed_count > 0
    /\ initial_worker_count < max_worker_count

\* a plan that is never taken for empty
NeverEmpty(sub_questions) == FALSE

\* sub_questions.is_empty()
is_empty(sub_questions) == sub_questions = <<>>

\* a worker closure that sends its result only when the query succeeded
worker_result_if_ok(result) == [sent |-> result = "ok", answer |-> "answer"]

\* the closure of an initial or gap worker: answer is
\* result.unwrap_or_else(|e| format!("Error: {}", e)), and the WorkerResult
\* is sent in both cases
worker_result(result) ==
    [sent |-> TRUE, answer |-> IF result = "ok" THEN "answer" ELSE "Error: e"]

\* the replies of the language model
PlanReplies == {[i \in 1..n |-> w] : n \in 0..MaxPlan, w \in WorkerStrings}

SeqsUpTo(S, n) == UNION {[1..k -> S] : k \in 0..n}

GapReplies == SeqsUpTo({"data_specialist", "web_researcher"}, MaxGapReply)
FollowUpReplies == SeqsUpTo({"data_specialist", "chemist"}, MaxFollowUps)

\* a session is over for its caller
SessionEnded == orch.session \in {"returned", "error", "cancelled"}

\* the receiving ends of the channels live in the future of research()
ReceiversAlive == orch.session \in {"workers", "joining"}

\* a task of kind k makes a language-model request, runs a tool or writes to
\* the shared memory: remembered when the session is already over
Acts(k) ==
    IF SessionEnded /\ hist.late_actor = "none"
    THEN [hist EXCEPT !.late_actor = k] ELSE hist

Idle ==
    [session |-> "idle", initial_worker_count |-> 0, active_workers |-> 0,
     gap_workers_spawned |-> FALSE, all_results |-> 0, early_results |-> 0,
     refinement_triggered |-> FALSE, error_results |-> 0, result |-> "none"]

NoSupervisor ==
    [pc |-> "none", iteration |-> 0, gap_workers_requested |-> FALSE,
     completed_count |-> 0, gap_questions |-> <<>>]

\* shared_memory.clear() as the session sees it
Cleared == [smem EXCEPT !.completed_count = 0, !.findings = FALSE]

\* the SubQuestions of a sequence, tagged with where they were made
Produced(source, sub_questions) ==
    {[source |-> source, assigned_worker |-> sub_questions[i].assigned_worker] :
       i \in 1..Len(sub_questions)}

\* main.rs: the user submits a query in research mode; research() sets the
\* query id and clears the memory of the previous session
research ==
    /\ orch.session = "idle"
    /\ orch' = [orch EXCEPT !.session = "planning"]
    /\ smem' = Cleared
    /\ UNCHANGED <<sup, tasks, chan, hist, notRes>>

\* research(): decompose_query_and_plan()?, the empty-plan return, the Plan
\* memory, and execute_workers_with_refinement up to its loop: the supervisor
\* and the initial workers are spawned
DecomposeAndDispatch ==
    /\ orch.session = "planning"
    /\ \/ /\ orch' = [orch EXCEPT !.session = "error", !.result = "lm_error"]
          /\ UNCHANGED <<sup, tasks, hist>>
       \/ \E reply \in PlanReplies :
            LET parsed == parse_plan(reply)
                sub_questions == parsed.sub_questions
            IN  IF ~parsed.ok
                THEN /\ orch' = [orch EXCEPT !.session = "error",
                                             !.result = "worker_role_not_found"]
                     /\ UNCHANGED <<sup, tasks, hist>>
                ELSE IF is_empty(sub_questions)
                THEN /\ orch' = [orch EXCEPT !.session = "returned",
                                             !.result = "unable_to_decompose"]
                     /\ UNCHANGED <<sup, tasks, hist>>
                ELSE /\ orch' = [orch EXCEPT
                                   !.session = "workers",
                                   !.initial_worker_count = Len(sub_questions),
                                   !.active_workers = Len(sub_questions)]
                     /\ sup' = IF smem.shared
                               THEN [NoSupervisor EXCEPT !.pc = "waiting"]
                               ELSE NoSupervisor
                     /\ tasks' = [tasks EXCEPT !.initial = Len(Dispatchable(sub_questions))]
                     /\ hist' = [hist EXCEPT !.sub_questions =
                                   @ \cup Produced("plan", sub_questions),
                                             !.plan_store = smem.shared]
    /\ UNCHANGED <<chan, smem, notRes>>

\* main.rs: the cancellation token fires; select! drops the future of
\* research() with its receivers and its JoinHandles, which detaches the
\* spawned tasks
Cancel ==
    /\ orch.session \in {"planning", "workers", "joining", "combining"}
    /\ orch' = [orch EXCEPT !.session = "cancelled", !.result = "query_cancelled_by_user"]
    /\ chan' = [rx |-> 0, rx_errors |-> 0, gap_rx |-> <<>>]
    /\ UNCHANGED <<sup, tasks, smem, hist, notRes>>

WorkerKinds == {"initial", "gap", "follow_up"}

\* a running worker (execute_worker) queries the model, runs a tool or
\* stores a discovery
WorkerActs(k) ==
    /\ tasks[k] > 0
    /\ smem' = IF smem.shared THEN [smem EXCEPT !.findings = TRUE] ELSE smem
    /\ hist' = Acts(k)
    /\ UNCHANGED <<orch, sup, tasks, chan, notRes>>

\* a worker's task ends with the Ok or the Err of execute_worker: initial
\* and gap workers send their WorkerResult (let _ = tx.send(..)), follow-up
\* workers drop theirs
WorkerFinishes(k) ==
    /\ tasks[k] > 0
    /\ tasks' = [tasks EXCEPT ![k] = @ - 1]
    /\ IF k # "follow_up" /\ ReceiversAlive
       THEN \E result \in {"ok", "err"} :
              LET sent == worker_result(result)
                  error == IF sent.answer = "Error: e" THEN 1 ELSE 0
              IN  /\ result = "err" => hist.failures < MaxFailures
                  /\ chan' = IF sent.sent
                             THEN [chan EXCEPT !.rx = @ + 1, !.rx_errors = @ + error]
                             ELSE chan
                  /\ hist' = IF result = "err"
                             THEN [hist EXCEPT !.failures = @ + 1] ELSE hist
       ELSE UNCHANGED <<chan, hist>>
    /\ UNCHANGED <<orch, sup, smem, notRes>>

\* the loop's branch Some(gap_questions) = gap_rx.recv()
DispatchGap ==
    /\ orch.session = "workers"
    /\ chan.gap_rx # <<>>
    /\ chan' = [chan EXCEPT !.gap_rx = Tail(@)]
    /\ IF ~orch.gap_workers_spawned
       THEN LET spawned == Len(Dispatchable(Head(chan.gap_rx)))
            IN  /\ orch' = [orch EXCEPT !.gap_workers_spawned = TRUE,
                                        !.active_workers = @ + spawned]
                /\ tasks' = [tasks EXCEPT !.gap = @ + spawned]
                /\ hist' = [hist EXCEPT !.gap_acted = @ + 1,
                                        !.gap_spawned = @ + spawned]
       ELSE UNCHANGED <<orch, tasks, hist>>
    /\ UNCHANGED <<sup, smem, notRes>>

early_threshold == Min(2, orch.initial_worker_count)

\* the body of the loop's branch Some(result) = rx.recv(), for a result
\* whose answer is an error text (error = 1) or not: the progress memory (its
\* store_memory may fail, which is ignored), the follow-up task after the
\* early results, all_results.push(result), active_workers -= 1 and the break
DispatchOne(error) ==
    LET results == orch.all_results + 1
        early == results <= early_threshold /\ ~orch.refinement_triggered
        trigger == early /\ orch.early_results + 1 = early_threshold
    IN  /\ orch' = [orch EXCEPT
                      !.all_results = results,
                      !.error_results = @ + error,
                      !.early_results = IF early THEN @ + 1 ELSE @,
                      !.refinement_triggered = @ \/ trigger,
                      !.active_workers = @ - 1,
                      !.session = IF orch.active_workers = 1 THEN "joining" ELSE @]
        /\ tasks' = IF trigger THEN [tasks EXCEPT !.follow_up_task = 1] ELSE tasks
        /\ \/ smem' = IF smem.shared
                      THEN [smem EXCEPT !.completed_count = results] ELSE smem
           \/ smem.shared /\ smem' = smem

\* the loop's branch Some(result) = rx.recv(): the channel hands over the
\* results in the order they were sent, whatever their answers are
DispatchResult ==
    /\ orch.session = "workers"
    /\ chan.rx > 0
    /\ \E error \in {0, 1} :
         /\ error = 1 => chan.rx_errors > 0
         /\ error = 0 => chan.rx > chan.rx_errors
         /\ chan' = [chan EXCEPT !.rx = @ - 1, !.rx_errors = @ - error]
         /\ DispatchOne(error)
    /\ UNCHANGED <<sup, hist, notRes>>

\* a supervisor that is left running
LeftRunning(supervisor) == supervisor

\* if let Some(handle) = supervisor_handle { handle.abort(); }
abort(supervisor) ==
    IF supervisor.pc = "none" THEN supervisor ELSE [supervisor EXCEPT !.pc = "aborted"]

\* after the loop: every handle is awaited, then the supervisor is aborted
JoinHandles ==
    /\ orch.session = "joining"
    /\ tasks.initial = 0 /\ tasks.gap = 0
    /\ orch' = [orch EXCEPT !.session = "combining"]
    /\ sup' = abort(sup)
    /\ chan' = [rx |-> 0, rx_errors |-> 0, gap_rx |-> <<>>]
    /\ UNCHANGED <<tasks, smem, hist, notRes>>

\* research(): combine_results()?, refinement_loop()?, the document, the
\* final shared_memory.clear() and the return
CombineAndReturn ==
    /\ orch.session = "combining"
    /\ \/ /\ orch' = [orch EXCEPT !.session = "error", !.result = "lm_error"]
          /\ smem' = smem
       \/ /\ orch' = [orch EXCEPT !.session = "returned", !.result = "document"]
          /\ smem' = Cleared
    /\ hist' = [hist EXCEPT !.combined = TRUE]
    /\ UNCHANGED <<sup, tasks, chan, notRes>>

\* the background task spawned after the early results: it asks the model
\* for follow-up questions and spawns a detached worker for each one whose
\* assigned_worker is a worker's name
FollowUpTask ==
    /\ tasks.follow_up_task = 1
    /\ \/ /\ tasks' = [tasks EXCEPT !.follow_up_task = 0]
          /\ hist' = Acts("follow_up_task")
       \/ \E reply \in FollowUpReplies :
            LET follow_ups == follow_up_questions(reply)
            IN  /\ tasks' = [tasks EXCEPT !.follow_up_task = 0,
                                          !.follow_up = @ + Len(Dispatchable(follow_ups))]
                /\ hist' = [Acts("follow_up_task") EXCEPT !.sub_questions =
                              @ \cup Produced("follow_up", follow_ups)]
    /\ UNCHANGED <<orch, sup, chan, smem, notRes>>

\* iteration += 1 in a loop that has no end: the loop compares the counter
\* with 1 only, so every count above 1 is kept as 2
TickCount(iteration) == Min(iteration + 1, 2)

\* supervisor_loop: interval.tick(), iteration += 1, the reads of the
\* memory, the skip of a first iteration with nothing to review, and the
\* analysis request to the model
SupervisorTick ==
    /\ sup.pc = "waiting"
    /\ IF ~smem.findings /\ TickCount(sup.iteration) = 1
       THEN /\ sup' = [sup EXCEPT !.iteration = TickCount(@),
                                  !.completed_count = smem.completed_count]
            /\ hist' = hist
       ELSE /\ sup' = [sup EXCEPT !.iteration = TickCount(@),
                                  !.completed_count = smem.completed_count,
                                  !.pc = "analysis"]
            /\ hist' = Acts("supervisor")
    /\ UNCHANGED <<orch, tasks, chan, smem, notRes>>

\* the analysis comes back: Err is logged; Ok is stored as Feedback with
\* update_or_store_memory, and when the gap detection is due the latch is
\* set and the gap request goes to the model
SupervisorAnalysis ==
    /\ sup.pc = "analysis"
    /\ \/ /\ sup' = [sup EXCEPT !.pc = "waiting"]
          /\ hist' = hist
       \/ /\ sup' = IF GapDetectionDue(sup.gap_workers_requested, sup.completed_count,
                                       (orch.initial_worker_count + 1) \div 2,
                                       orch.initial_worker_count)
                    THEN [sup EXCEPT !.gap_workers_requested = TRUE, !.pc = "gap_query"]
                    ELSE [sup EXCEPT !.pc = "waiting"]
          /\ hist' = Acts("supervisor")
    /\ UNCHANGED <<orch, tasks, chan, smem, notRes>>

\* the gap reply comes back: Err, NO_GAPS, text that is no JSON array and an
\* empty array send nothing; otherwise the gap SubQuestions are built
SupervisorGapReply ==
    /\ sup.pc = "gap_query"
    /\ \/ /\ sup' = [sup EXCEPT !.pc = "waiting"]
          /\ hist' = hist
       \/ \E reply \in GapReplies :
            LET questions == gap_questions(reply, orch.initial_worker_count)
            IN  /\ questions # <<>>
                /\ sup' = [sup EXCEPT !.pc = "gap_send", !.gap_questions = questions]
                /\ hist' = [hist EXCEPT !.sub_questions =
                              @ \cup Produced("gap", questions)]
    /\ UNCHANGED <<orch, tasks, chan, smem, notRes>>

\* let _ = gap_worker_tx.send(gap_questions).await on the channel of
\* capacity 1: Err when the receiver is gone, waiting while the slot is taken
SupervisorGapSend ==
    /\ sup.pc = "gap_send"
    /\ IF ReceiversAlive
       THEN /\ Len(chan.gap_rx) < 1
            /\ chan' = [chan EXCEPT !.gap_rx = Append(@, sup.gap_questions)]
            /\ hist' = [hist EXCEPT !.gap_sent = @ + 1]
       ELSE UNCHANGED <<chan, hist>>
    /\ sup' = [sup EXCEPT !.pc = "waiting", !.gap_questions = <<>>]
    /\ UNCHANGED <<orch, tasks, smem, notRes>>

(***************************************************************************)
(* The refinement loop of a session: research.rs                           *)
(***************************************************************************)
\* the verdicts of the synthesizer, as sequences of characters
Verdicts ==
    { <<"A", "P", "P", "R", "O", "V", "E", "D", ":", " ", "o", "k">>,
      <<" ", "a", "p", "p", "r", "o", "v", "e", "d">>,
      <<"N", "o", "t", " ", "A", "p", "p", "r", "o", "v", "e", "d">>,
      <<"R", "E", "V", "I", "S", "E", ":", " ", "g", "a", "p", "s">>,
      <<"a", "p", "p", "r", "o", "v", "e">> }

\* str::trim
RECURSIVE trim(_)
trim(s) ==
    IF s = <<>> THEN s
    ELSE IF Head(s) = " " THEN trim(Tail(s))
    ELSE IF s[Len(s)] = " " THEN trim(SubSeq(s, 1, Len(s) - 1))
    ELSE s

\* char::to_uppercase on the letters of the verdicts
UpperOf(ch) ==
    CASE ch = "a" -> "A" [] ch = "p" -> "P" [] ch = "r" -> "R" [] ch = "o" -> "O"
      [] ch = "v" -> "V" [] ch = "e" -> "E" [] ch = "d" -> "D" [] ch = "t" -> "T"
      [] ch = "g" -> "G" [] ch = "s" -> "S" [] ch = "k" -> "K"
      [] OTHER -> ch

to_uppercase(s) == [i \in 1..Len(s) |-> UpperOf(s[i])]

\* str::contains
contains(s, pat) ==
    \E i \in 1..(Len(s) - Len(pat) + 1) : SubSeq(s, i, i + Len(pat) - 1) = pat

\* str::starts_with
starts_with(s, pat) == Len(s) >= Len(pat) /\ SubSeq(s, 1, Len(pat)) = pat

APPROVED == <<"A", "P", "P", "R", "O", "V", "E", "D">>

\* a test that wants the verdict to begin with APPROVED, as review_plan's
\* caller does
ApprovedAtStart(debate_result) ==
    starts_with(to_uppercase(trim(debate_result)), APPROVED)

\* refinement_loop: debate_result.trim().to_uppercase().contains("APPROVED")
Approved(debate_result) ==
    contains(to_uppercase(trim(debate_result)), APPROVED)

\* the replies of the refiner
RefinerReplies == {"refined_a", "refined_b"}

\* no refinement loop under way
NoRefinement ==
    [pc |-> "none", max_iterations |-> 0, iteration |-> 0,
     initial_output |-> "none", current_output |-> "none",
     debate_result |-> <<>>, debated |-> <<>>, refined |-> <<>>,
     document_input |-> "none"]

\* refinement_loop(&combined_output): current_output = initial_output, and
\* max_iterations is ollama_config.max_refinement_iterations
RefinementStarts(max) ==
    [NoRefinement EXCEPT !.pc = "loop", !.max_iterations = max,
                         !.initial_output = "combined_output",
                         !.current_output = "combined_output"]

\* for iteration in 0..max_iterations: conduct_debate(&current_output)?, and
\* the break when the verdict approves
conduct_debate ==
    /\ refn.pc = "loop"
    /\ refn.iteration < refn.max_iterations
    /\ \/ refn' = [refn EXCEPT !.pc = "error"]
       \/ \E verdict \in Verdicts :
            refn' = [refn EXCEPT
                       !.debate_result = verdict,
                       !.debated = Append(@, [output |-> refn.current_output,
                                              verdict |-> verdict]),
                       !.pc = IF Approved(verdict) THEN "leave" ELSE "refine"]
    /\ UNCHANGED notRef

\* current_output = refine_output(&current_output, &debate_result)?
refine_output ==
    /\ refn.pc = "refine"
    /\ \/ refn' = [refn EXCEPT !.pc = "error"]
       \/ \E reply \in RefinerReplies :
            refn' = [refn EXCEPT
                       !.refined = Append(@, [output |-> refn.current_output,
                                              debate_result |-> refn.debate_result,
                                              reply |-> reply]),
                       !.current_output = reply,
                       !.iteration = @ + 1,
                       !.pc = "loop"]
    /\ UNCHANGED notRef

\* the loop is left by the break or at its bound: Ok(current_output), and
\* research() hands it to document_writing_loop
RefinementReturns ==
    /\ \/ refn.pc = "leave"
       \/ refn.pc = "loop" /\ refn.iteration >= refn.max_iterations
    /\ refn' = [refn EXCEPT !.pc = "document", !.document_input = refn.current_output]
    /\ UNCHANGED notRef
(***************************************************************************)
(* The tool-calling loop of the LM client: ollama.rs                       *)
(***************************************************************************)
\* the results execute_tool_call_get_result may return for one call
ToolResults == {"r1", "r2"}

\* if iteration > max_iterations
CapReached(iteration, max_iterations) == iteration > max_iterations

\* the bare notice, whatever was gathered
CapNotice(tool_results_context, max_iterations) ==
    <<"Maximum tool iteration limit reached before gathering results.", max_iterations>>

\* the text returned at the cap: the accumulated context between a heading
\* and a notice, or the bare notice when nothing was gathered
CapReturn(tool_results_context, max_iterations) ==
    IF tool_results_context # <<>>
    THEN <<"Based on the research gathered:", tool_results_context,
           "Note: Reached maximum tool iteration limit.">>
    ELSE <<"Maximum tool iteration limit reached before gathering results.",
           max_iterations>>

\* the context after the results of one iteration are appended under
\* "Tool results from iteration {iteration}:"
FoldResults(tool_results_context, iteration, tool_results) ==
    IF tool_results_context = <<>>
    THEN <<[iteration |-> iteration, tool_results |-> tool_results]>>
    ELSE tool_results_context
         \o <<[iteration |-> iteration, tool_results |-> tool_results]>>

\* a query returns
LmReturn(kind, text) == [lm EXCEPT !.pc = "done", !.ret = [kind |-> kind, text |-> text]]

\* the head of the loop: iteration += 1, the cap, and otherwise the chat
\* request of this iteration
LoopIteration ==
    /\ lm.pc = "loop"
    /\ IF CapReached(lm.iteration + 1, lm.max_tool_turns)
       THEN lm' = [LmReturn("ok", CapReturn(lm.tool_results_context, lm.max_tool_turns))
                     EXCEPT !.iteration = lm.iteration + 1]
       ELSE lm' = [lm EXCEPT !.iteration = @ + 1, !.pc = "chat", !.rounds = @ + 1]
    /\ UNCHANGED <<folded, notLm>>

\* the request fails on all 10 attempts, or the stream breaks: Err
ChatFails ==
    /\ lm.pc = "chat"
    /\ lm' = LmReturn("err", <<"Ollama API failed">>)
    /\ UNCHANGED <<folded, notLm>>

\* the reply holds no tool call that is executed (tools are off, the text
\* is an answer, or JSON without tool_type and tool_name): it is returned
ChatAnswers ==
    /\ lm.pc = "chat"
    /\ lm' = LmReturn("ok", <<"response_text">>)
    /\ UNCHANGED <<folded, notLm>>

\* the reply holds tool calls: each is executed, an Err of
\* execute_tool_call_get_result ends the query, otherwise the results are
\* folded into the context and the loop continues
ChatCallsTools ==
    /\ lm.pc = "chat"
    /\ lm.allow_tools
    /\ \/ /\ lm' = LmReturn("err", <<"tool call malformed">>)
          /\ folded' = folded
       \/ \E n \in 1..MaxToolCalls : \E tool_results \in [1..n -> ToolResults] :
            /\ lm' = [lm EXCEPT !.pc = "loop",
                                !.tool_results_context =
                                   FoldResults(@, lm.iteration, tool_results)]
            /\ folded' = Append(folded, tool_results)
    /\ UNCHANGED notLm

(***************************************************************************)
(* The status policy of an HTTP tool: tools.rs                             *)
(***************************************************************************)
\* a status pattern of the tool configuration: a number ("404"), a class
\* ("4xx"), or text that is neither ("20x")
Exact(code) == [kind |-> "exact", code |-> code]
Class(digit) == [kind |-> "class", digit |-> digit]
Malformed == [kind |-> "malformed"]

\* status_matches: pattern.parse::<u16>() first, then "<digit>xx"
status_matches(status_code, pattern) ==
    IF pattern.kind = "exact" THEN status_code = pattern.code
    ELSE IF pattern.kind = "class" THEN status_code \div 100 = pattern.digit
    ELSE FALSE

\* status_in_list: patterns.iter().any(..)
status_in_list(status_code, patterns) ==
    \E pattern \in patterns : status_matches(status_code, pattern)

\* default_expected_status: ["2xx", "3xx"]
default_expected_status == {Class(2), Class(3)}

\* the policy with the error list looked at before the acceptable list
StatusOutcomeErrorFirst(status_code, tool) ==
    IF tool.error_status # {} /\ status_in_list(status_code, tool.error_status)
    THEN "error"
    ELSE IF status_in_list(status_code, tool.acceptable_status) THEN "ignored"
    ELSE IF tool.error_status = {}
            /\ ~status_in_list(status_code, tool.expected_status)
    THEN "error" ELSE "success"

\* execute_http_tool on a response with this status: ignored when the
\* status is acceptable; an error when the error list is non-empty and holds
\* it, or the error list is empty and the status is not expected; else the
\* body is returned
StatusOutcome(status_code, tool) ==
    IF status_in_list(status_code, tool.acceptable_status) THEN "ignored"
    ELSE LET is_expected == status_in_list(status_code, tool.expected_status)
             should_error == IF tool.error_status # {}
                             THEN status_in_list(status_code, tool.error_status)
                             ELSE ~is_expected
         IN  IF should_error THEN "error" ELSE "success"

StatusCodes == {200, 204, 301, 404, 429, 500}
Methods == {"GET", "POST", "PUT", "HEAD"}

AcceptableLists == SUBSET {Exact(404), Class(2), Malformed}
ErrorLists == SUBSET {Exact(404), Class(5), Exact(200)}
ExpectedLists == {default_expected_status, {Exact(200)}, {}}

HttpTools ==
    [method : Methods, acceptable_status : AcceptableLists,
     error_status : ErrorLists, expected_status : ExpectedLists]

NoStatus == 0

HttpDone(status_code, outcome) ==
    [http EXCEPT !.pc = "done", !.status_code = status_code, !.outcome = outcome]

\* execute_http_tool up to the request: no tool of that name, a method the
\* builder does not know, a method the send does not handle, or the request
\* is sent
HttpSend ==
    /\ http.pc = "called"
    /\ \/ http' = HttpDone(NoStatus, "error")
       \/ /\ http.tool.method \notin {"GET", "POST", "PUT", "DELETE", "PATCH"}
          /\ http' = HttpDone(NoStatus, "error")
       \/ /\ http.tool.method \in {"PUT", "DELETE", "PATCH"}
          /\ http' = HttpDone(NoStatus, "panic")
       \/ /\ http.tool.method \in {"GET", "POST"}
          /\ http' = [http EXCEPT !.pc = "sent"]
    /\ UNCHANGED notHttp

\* send().await? fails: no response
HttpNoResponse ==
    /\ http.pc = "sent"
    /\ http' = HttpDone(NoStatus, "error")
    /\ UNCHANGED notHttp

\* a response arrives: the status policy, then on the success path the body
\* is parsed and the response_path extracted, either of which may fail
HttpResponse ==
    /\ http.pc = "sent"
    /\ \E status_code \in StatusCodes :
         LET outcome == StatusOutcome(status_code, http.tool)
         IN  \/ http' = HttpDone(status_code, outcome)
             \/ /\ outcome = "success"
                /\ http' = HttpDone(status_code, "error")
    /\ UNCHANGED notHttp

(***************************************************************************)
(* The tool executor shared by the LM clients: tools.rs, ollama.rs         *)
(* execute_tool_call_get_result, research.rs research()                    *)
(***************************************************************************)
\* the LM clients of the workers: each has the same Arc<Mutex<ToolExecutor>>
Clients == {"w1", "w2"}

\* format!("query_{}_{}", timestamp, random) of the n-th session
QueryIdOf(n) == IF n = 1 THEN "q1" ELSE IF n = 2 THEN "q2" ELSE "q3"

\* ---- tool names ----
\* a name is the sequence of its segments between ':' characters
\* format!("{}:{}", server_name, tool.name)
FullToolName(server_name, tool_name) == <<server_name>> \o tool_name

\* tool_name.split(':').collect()
split(tool_name) == tool_name

\* the configuration: config.tools.builtin, config.tools.http,
\* config.tools.mcp and the tools discovered on the servers (mcp_tools)
ConfigBuiltin == << <<"memory_store">> >>
ConfigHttp == << <<"weather">> >>
ConfigMcp == <<"fs">>
McpTools == << [server_name |-> "fs", name |-> <<"read">>] >>

\* get_tool_descriptions: built-in tools, then HTTP tools, then MCP tools
get_tool_descriptions ==
    [i \in 1..Len(ConfigBuiltin) |-> [name |-> ConfigBuiltin[i], tool_type |-> "builtin"]]
    \o [i \in 1..Len(ConfigHttp) |-> [name |-> ConfigHttp[i], tool_type |-> "http"]]
    \o [i \in 1..Len(McpTools) |->
          [name |-> FullToolName(McpTools[i].server_name, McpTools[i].name),
           tool_type |-> "mcp"]]

\* tool_descriptions.iter().find(|t| t.name == tool_name): the index of the
\* first description of that name, 0 when there is none
FindDescription(tool_name) ==
    LET found == {i \in 1..Len(get_tool_descriptions) :
                    get_tool_descriptions[i].name = tool_name}
    IN IF found = {} THEN 0 ELSE CHOOSE i \in found : \A j \in found : i <= j

\* the type the reply gives, used whatever the catalog says
ReplyType(tool_name, tool_type) == tool_type

\* ollama.rs:775-792: the type of the catalog when the name is in it, else
\* the type of the reply
actual_tool_type(tool_name, tool_type) ==
    IF FindDescription(tool_name) # 0
    THEN get_tool_descriptions[FindDescription(tool_name)].tool_type
    ELSE tool_type

\* ---- the tool calls a model reply may hold ----
\* a JSON value of the reply: a string or something else (a number, null)
JsonStr(s) == [is_str |-> TRUE, str |-> s]
TypeValues == {JsonStr(s) : s \in {"builtin", "http", "mcp", "shell"}}
                  \cup {[is_str |-> FALSE, str |-> ""]}
NameValues ==
    {JsonStr(n) : n \in {<<"memory_store">>, <<"weather">>, <<"fs", "read">>, <<"nope">>}}
        \cup {[is_str |-> FALSE, str |-> <<>>]}

\* any JSON object that has tool_type and tool_name (ollama.rs:506, 520),
\* with or without a "parameters" member
JsonObjects ==
    [tool_type : TypeValues, tool_name : NameValues, parameters : {"object", "absent"}]

WellFormed(tc) ==
    tc.tool_type.is_str /\ tc.tool_name.is_str /\ tc.parameters = "object"

\* calls of the weather tool that lack one of the three members
MalformedCalls ==
    {tc \in JsonObjects :
        /\ tc.tool_type \in {JsonStr("http"), [is_str |-> FALSE, str |-> ""]}
        /\ tc.tool_name \in {JsonStr(<<"weather">>), [is_str |-> FALSE, str |-> <<>>]}
        /\ \/ ~tc.tool_type.is_str /\ tc.tool_name.is_str /\ tc.parameters = "object"
           \/ tc.tool_type.is_str /\ ~tc.tool_name.is_str /\ tc.parameters = "object"
           \/ tc.tool_type.is_str /\ tc.tool_name.is_str /\ tc.parameters = "absent"}

\* the replies studied
ToolCalls == {tc \in JsonObjects : WellFormed(tc)} \cup MalformedCalls

\* the calls of the rate-limit study: well-formed calls of the catalog
\* tools that are rate limited, under their catalog type
RateCalls ==
    {tc \in ToolCalls :
        /\ WellFormed(tc)
        /\ tc.tool_name.str \in {<<"weather">>, <<"fs", "read">>}
        /\ tc.tool_type.str = actual_tool_type(tc.tool_name.str, tc.tool_type.str)}

NoCall == [tool_type |-> JsonStr("none"), tool_name |-> JsonStr(<<>>), parameters |-> "absent"]

\* the three .ok_or_else(..)? at ollama.rs:764-773
MissingField(tc) ==
    \/ ~tc.tool_type.is_str
    \/ ~tc.tool_name.is_str
    \/ tc.parameters = "absent"

\* ---- rate limiting ----
\* seconds; Duration::from_secs(60)
RATE_LIMIT_WINDOW == 60
\* the clock advances in steps of this many seconds
TickSeconds == 60
\* an elapsed time is kept up to the first value beyond the window
Saturated == RATE_LIMIT_WINDOW + TickSeconds

\* a delay table that starts over after the fifth call
DelayStartingOver(call_count) ==
    CASE call_count = 1 -> 0
      [] call_count = 2 -> 100
      [] call_count = 3 -> 250
      [] call_count = 4 -> 500
      [] call_count = 5 -> 1000
      [] OTHER -> 0

\* match usage.call_count { 1 => 0, 2 => 100, .., _ => 1500 }
delay_ms(call_count) ==
    CASE call_count = 1 -> 0
      [] call_count = 2 -> 100
      [] call_count = 3 -> 250
      [] call_count = 4 -> 500
      [] call_count = 5 -> 1000
      [] OTHER -> 1500

\* the keys of tool_usage that the calls above can create
UsageKeys == {<<"weather">>, <<"fs", "read">>, <<"nope">>, <<"fs", "nope">>}

\* no entry for the key: what or_insert creates has call_count 0 and
\* last_call = now
NoUsage == [call_count |-> 0, elapsed |-> 0]

\* calculate_rate_limit_delay: the entry afterwards
UsageAfter(usage) ==
    IF usage.elapsed > RATE_LIMIT_WINDOW
    THEN [call_count |-> 1, elapsed |-> 0]
    ELSE [call_count |-> usage.call_count + 1, elapsed |-> 0]

\* calculate_rate_limit_delay: the value returned
RateLimitDelay(usage) ==
    IF usage.elapsed > RATE_LIMIT_WINDOW
    THEN 0
    ELSE delay_ms(usage.call_count + 1)

\* the delays computed for one key since its window started, and whether the
\* last call came more than the window after the call before it
NoRateLog == [window |-> <<>>, after_gap |-> FALSE]

RateLogAfter(log, usage) ==
    IF usage.call_count > 0 /\ usage.elapsed > RATE_LIMIT_WINDOW
    THEN [window |-> <<RateLimitDelay(usage)>>, after_gap |-> TRUE]
    ELSE [window |-> Append(log.window, RateLimitDelay(usage)), after_gap |-> FALSE]

\* ---- the audit table ----
\* an executor that records no call
RecordNothing(rows, row) == rows

\* record_tool_call: INSERT INTO tool_calls when a shared memory is attached
record_tool_call(rows, row) ==
    IF exec.shared_memory THEN Append(rows, row) ELSE rows

\* the row of a call of client c: get_query_id() is read when the row is made
AuditRow(c, tool_type, tool_name) ==
    [query_id |-> exec.query_id, tool_type |-> tool_type, tool_name |-> tool_name,
     serial |-> client[c].serial, during |-> rsess.n, by_session |-> client[c].session]

\* ---- the clients ----
IdleClient ==
    [pc |-> "idle", session |-> 0, call |-> NoCall, serial |-> 0,
     actual_tool_type |-> "none", op |-> "none", key |-> <<>>,
     raw_result |-> "none", query |-> "none"]

\* Ok(raw_result): the text is pushed on tool_results and the loop goes on;
\* the locals of execute_tool_call_get_result are gone
Folded(cl, raw_result) ==
    [IdleClient EXCEPT !.pc = "loop", !.session = cl.session, !.serial = cl.serial,
                       !.op = cl.op, !.raw_result = raw_result, !.query = cl.query]

NoExecutor(shared_memory) ==
    [holder |-> NoTask, query_id |-> NoQid, shared_memory |-> shared_memory,
     tool_usage |-> [k \in UsageKeys |-> NoUsage]]

\* research(): a new query_id; executor.try_lock() sets it on the executor
\* only when no task holds the executor; shared memory clear(); the Plan is
\* stored with the orchestrator's query_id
ResearchStarts ==
    /\ UNCHANGED notTool
    /\ rsess.n < MaxSessions
    /\ LET n == rsess.n + 1
       IN /\ rsess' = [n |-> n, query_id |-> QueryIdOf(n),
                       memories |-> {[memory_type |-> "plan", query_id |-> QueryIdOf(n),
                                      during |-> n, by_session |-> n]}]
          /\ exec' = IF exec.holder = NoTask
                     THEN [exec EXCEPT !.query_id = QueryIdOf(n)]
                     ELSE exec
    /\ UNCHANGED <<tool_calls, client, rate_log, exec_calls>>

\* a reply of the model holds a tool call (ollama.rs:499-528), and
\* execute_tool_call_get_result starts: a call without a string tool_type, a
\* string tool_name or a "parameters" member returns Err, which the .await?
\* of the loop returns from the query. A client that runs no query starts
\* one as a worker of the current session
ToolCallParsed(c, tc, max) ==
    /\ UNCHANGED notTool
    /\ rsess.n > 0
    /\ client[c].pc \in {"idle", "loop"}
    /\ exec_calls < max
    /\ exec_calls' = exec_calls + 1
    /\ LET session == IF client[c].pc = "idle" THEN rsess.n ELSE client[c].session
           started == [IdleClient EXCEPT !.session = session, !.call = tc,
                                         !.serial = exec_calls + 1]
       IN client' = [client EXCEPT ![c] =
                       IF MissingField(tc)
                       THEN [started EXCEPT !.raw_result = "Err", !.query = "Err"]
                       ELSE [started EXCEPT !.pc = "lookup", !.query = "running"]]
    /\ UNCHANGED <<exec, tool_calls, rsess, rate_log>>

\* let actual_tool_type = { let exec = executor.lock().await; .. }
LookupType(c) ==
    /\ UNCHANGED notTool
    /\ client[c].pc = "lookup"
    /\ exec.holder = NoTask
    /\ client' = [client EXCEPT ![c].pc = "dispatch",
                    ![c].actual_tool_type =
                        actual_tool_type(client[c].call.tool_name.str,
                                         client[c].call.tool_type.str)]
    /\ UNCHANGED <<exec, tool_calls, rsess, rate_log, exec_calls>>

\* "builtin" => executor.lock().await; execute_builtin_tool records the call
ExecuteBuiltin(c) ==
    /\ UNCHANGED notTool
    /\ client[c].pc = "dispatch"
    /\ client[c].actual_tool_type = "builtin"
    /\ exec.holder = NoTask
    /\ exec' = [exec EXCEPT !.holder = c]
    /\ tool_calls' = record_tool_call(tool_calls,
                        AuditRow(c, "builtin", client[c].call.tool_name.str))
    /\ client' = [client EXCEPT ![c].pc = "run", ![c].op = "execute_builtin_tool"]
    /\ UNCHANGED <<rsess, rate_log, exec_calls>>

\* "http" => executor.lock().await; execute_http_tool records the call and
\* goes on to apply_rate_limit(tool_name)
ExecuteHttp(c) ==
    /\ UNCHANGED notTool
    /\ client[c].pc = "dispatch"
    /\ client[c].actual_tool_type = "http"
    /\ exec.holder = NoTask
    /\ exec' = [exec EXCEPT !.holder = c]
    /\ tool_calls' = record_tool_call(tool_calls,
                        AuditRow(c, "http", client[c].call.tool_name.str))
    /\ client' = [client EXCEPT ![c].pc = "rate_limit", ![c].op = "execute_http_tool",
                                ![c].key = client[c].call.tool_name.str]
    /\ UNCHANGED <<rsess, rate_log, exec_calls>>

\* "mcp" => the name is split at ':' into server and tool, or the first
\* server of the configuration is taken; executor.lock().await;
\* execute_mcp_tool records the call under the combined name
McpTarget(tool_name) ==
    IF Len(split(tool_name)) = 2
    THEN [server_name |-> split(tool_name)[1], tool_name |-> <<split(tool_name)[2]>>]
    ELSE [server_name |-> ConfigMcp[1], tool_name |-> tool_name]

ExecuteMcp(c) ==
    /\ UNCHANGED notTool
    /\ client[c].pc = "dispatch"
    /\ client[c].actual_tool_type = "mcp"
    /\ exec.holder = NoTask
    /\ exec' = [exec EXCEPT !.holder = c]
    /\ LET target == McpTarget(client[c].call.tool_name.str)
           full_tool_name == FullToolName(target.server_name, target.tool_name)
       IN /\ tool_calls' = record_tool_call(tool_calls, AuditRow(c, "mcp", full_tool_name))
          /\ client' = [client EXCEPT ![c].pc = "rate_limit",
                                      ![c].op = "execute_mcp_tool",
                                      ![c].key = full_tool_name]
    /\ UNCHANGED <<rsess, rate_log, exec_calls>>

\* _ => "Tool '..' of type '..' is not available": no executor operation
ToolNotAvailable(c) ==
    /\ UNCHANGED notTool
    /\ client[c].pc = "dispatch"
    /\ client[c].actual_tool_type \notin {"builtin", "http", "mcp"}
    /\ client' = [client EXCEPT ![c] = Folded(client[c], "not available")]
    /\ UNCHANGED <<exec, tool_calls, rsess, rate_log, exec_calls>>

\* apply_rate_limit: calculate_rate_limit_delay under the tool_usage mutex,
\* then the sleep
apply_rate_limit(c) ==
    /\ UNCHANGED notTool
    /\ client[c].pc = "rate_limit"
    /\ exec.holder = c
    /\ LET key == client[c].key
       IN /\ exec' = [exec EXCEPT !.tool_usage[key] = UsageAfter(exec.tool_usage[key])]
          /\ rate_log' = [rate_log EXCEPT ![key] =
                            RateLogAfter(rate_log[key], exec.tool_usage[key])]
    /\ client' = [client EXCEPT ![c].pc = "run"]
    /\ UNCHANGED <<tool_calls, rsess, exec_calls>>

\* whether the executor operation can find the tool it is asked for
KnownTool(op, tool_name) ==
    CASE op = "execute_builtin_tool" -> tool_name = <<"memory_store">>
      [] op = "execute_http_tool" -> \E i \in 1..Len(ConfigHttp) : ConfigHttp[i] = tool_name
      [] OTHER -> FindDescription(tool_name) # 0

\* the memory builtin_memory_store stores: metadata query_id is the
\* executor's get_query_id()
StoredByTool(c) ==
    [memory_type |-> "discovery", query_id |-> exec.query_id,
     during |-> rsess.n, by_session |-> client[c].session]

\* the executor operation runs the tool and returns; the executor guard is
\* dropped; Ok(result) and Err(e) both become a text of the result list
ToolReturns(c) ==
    /\ UNCHANGED notTool
    /\ client[c].pc = "run"
    /\ exec.holder = c
    /\ exec' = [exec EXCEPT !.holder = NoTask]
    /\ \E outcome \in {"returned", "failed with error"} :
         /\ outcome = "returned" => KnownTool(client[c].op, client[c].call.tool_name.str)
         /\ client' = [client EXCEPT ![c] = Folded(client[c], outcome)]
         /\ rsess' = IF /\ outcome = "returned"
                        /\ client[c].op = "execute_builtin_tool"
                        /\ exec.shared_memory
                     THEN [rsess EXCEPT !.memories = @ \cup {StoredByTool(c)}]
                     ELSE rsess
         /\ outcome = "returned" /\ client[c].op = "execute_builtin_tool"
              => exec.shared_memory
    /\ UNCHANGED <<tool_calls, rate_log, exec_calls>>

\* the model gives its final answer: the query returns Ok
QueryReturns(c) ==
    /\ UNCHANGED notTool
    /\ client[c].pc = "loop"
    /\ client' = [client EXCEPT ![c] =
                    [IdleClient EXCEPT !.session = client[c].session, !.query = "Ok"]]
    /\ UNCHANGED <<exec, tool_calls, rsess, rate_log, exec_calls>>

\* time passes: every entry of tool_usage is older
Tick ==
    /\ UNCHANGED notTool
    /\ \E k \in UsageKeys :
         exec.tool_usage[k].call_count > 0 /\ exec.tool_usage[k].elapsed < Saturated
    /\ exec' = [exec EXCEPT !.tool_usage =
                  [k \in UsageKeys |->
                     IF exec.tool_usage[k].call_count > 0
                     THEN [exec.tool_usage[k] EXCEPT
                             !.elapsed = IF @ + TickSeconds > Saturated THEN Saturated
                                         ELSE @ + TickSeconds]
                     ELSE exec.tool_usage[k]]]
    /\ UNCHANGED <<tool_calls, client, rsess, rate_log, exec_calls>>

(***************************************************************************)
(* One chat request of the LM client and its retries: ollama.rs            *)
(***************************************************************************)
\* for attempt in 1..=10
ChatAttempts == 10

\* why an attempt failed: a response with a 400 status, with another
\* non-success status, or no response (send() returned Err)
ChatErrors == {"400 Bad Request", "API error", "request failed"}

\* a backoff that doubles from 2 seconds
backoff_doubling(attempt) == 2 ^ attempt

\* let delay_secs = match attempt { 1 => 2, 2 => 5, .., 9 => 40, _ => 40 }
delay_secs(attempt) ==
    CASE attempt = 1 -> 2
      [] attempt = 2 -> 5
      [] attempt = 3 -> 10
      [] attempt = 4 -> 15
      [] attempt = 5 -> 20
      [] attempt = 6 -> 25
      [] attempt = 7 -> 30
      [] attempt = 8 -> 35
      [] attempt = 9 -> 40
      [] OTHER -> 40

\* no chat request under way
NoChat ==
    [pc |-> "done", attempt |-> 0, slept |-> <<>>, last_error |-> <<>>,
     response |-> "none"]

\* the request is built and the first attempt is about to be sent
ChatStarts == [NoChat EXCEPT !.pc = "send", !.attempt = 1]

\* send().await returns a response with a success status: break
ChatSendSucceeds ==
    /\ UNCHANGED notChat
    /\ chat.pc = "send"
    /\ chat' = [chat EXCEPT !.pc = "done", !.response = "Some"]

\* send().await returns a non-success status or Err: the message is printed
\* and kept in last_error; an attempt before the tenth goes on to its
\* sleep, the tenth ends the loop and response.ok_or_else(..)? returns Err
ChatSendFails ==
    /\ UNCHANGED notChat
    /\ chat.pc = "send"
    /\ \E e \in ChatErrors :
         chat' = [chat EXCEPT !.last_error = Append(@, e),
                              !.pc = IF chat.attempt < ChatAttempts THEN "sleep" ELSE "done",
                              !.response = IF chat.attempt < ChatAttempts THEN "none"
                                           ELSE "Err"]

\* tokio::time::sleep(Duration::from_secs(delay_secs)).await, then the next
\* attempt of the for loop
ChatSleeps ==
    /\ UNCHANGED notChat
    /\ chat.pc = "sleep"
    /\ chat' = [chat EXCEPT !.slept = Append(@, delay_secs(chat.attempt)),
                            !.attempt = @ + 1,
                            !.pc = "send"]

(***************************************************************************)
(* The document loop of a session: research.rs document_writing_loop       *)
(***************************************************************************)
\* the replies of the document critic, as sequences of characters
Criticisms ==
    { <<"A", "P", "P", "R", "O", "V", "E", "D">>,
      <<" ", "a", "p", "p", "r", "o", "v", "e", "d", " ">>,
      <<"A", "P", "P", "R", "O", "V", "E", "D", ":", " ", "o", "k">>,
      <<"R", "E", "V", "I", "S", "E", ":", " ", "g", "a", "p", "s">> }

\* a document: its text, the sources the three regexes of extract_sources
\* find in it, and whether it ends with a "## References" section
Document(text, sources) == [text |-> text, sources |-> sources, references |-> FALSE]

\* String::new()
EmptyDocument == Document("", {})

\* the replies of the writer: a draft that cites a source and one that
\* cites none
WriterReplies ==
    {Document("draft_a", {"https://a.example"}), Document("draft_b", {})}

\* a test that takes any reply holding APPROVED as an approval
ApprovedAnywhere(criticism) ==
    contains(to_uppercase(trim(criticism)), APPROVED)

\* criticism.trim().to_uppercase() == "APPROVED"
DocumentApproved(criticism) ==
    to_uppercase(trim(criticism)) = APPROVED

\* add_sources_section: the text as it is when extract_sources finds
\* nothing, else the text followed by the References section
add_sources_section(document) ==
    IF document.sources = {} THEN document
    ELSE [document EXCEPT !.references = TRUE]

\* a section of a prompt: what it is, and the iteration it comes from (0 for
\* what is the same in every iteration)
Section(label, of) == [label |-> label, of |-> of]

\* the prompt of write_document: the writer's system prompt, the query, the
\* research findings and, with Some(prev_doc), the previous draft
WriterPrompt(iteration) ==
    <<Section("system_prompt", 0), Section("original_query", 0),
      Section("research_content", 0)>>
    \o (IF iteration = 0 THEN <<>> ELSE <<Section("previous_document", iteration)>>)

\* no document loop under way
NoDocumentLoop ==
    [pc |-> "none", max_iterations |-> 0, iteration |-> 0,
     current_document |-> EmptyDocument, criticism |-> <<>>,
     written |-> <<>>, reviewed |-> <<>>, final_document |-> EmptyDocument]

\* document_writing_loop(query, research_content): max_iterations is
\* ollama_config.max_document_iterations
DocumentLoopStarts(max) ==
    [NoDocumentLoop EXCEPT !.pc = "write", !.max_iterations = max]

\* for iteration in 0..max_iterations: write_document(..)? with None in the
\* first iteration and Some(&current_document) later
write_document ==
    /\ UNCHANGED notDoc
    /\ doc.pc = "write"
    /\ doc.iteration < doc.max_iterations
    /\ \/ doc' = [doc EXCEPT !.pc = "error"]
       \/ \E document \in WriterReplies :
            doc' = [doc EXCEPT
                      !.written = Append(@, [prompt |-> WriterPrompt(doc.iteration),
                                             previous_document |-> doc.current_document,
                                             document |-> document]),
                      !.current_document = document,
                      !.pc = "review"]

\* review_document(query, &current_document)?, and the break on APPROVED
review_document ==
    /\ UNCHANGED notDoc
    /\ doc.pc = "review"
    /\ \/ doc' = [doc EXCEPT !.pc = "error"]
       \/ \E criticism \in Criticisms :
            doc' = [doc EXCEPT
                      !.criticism = criticism,
                      !.reviewed = Append(@, [document |-> doc.current_document,
                                              criticism |-> criticism]),
                      !.iteration = IF DocumentApproved(criticism) THEN @ ELSE @ + 1,
                      !.pc = IF DocumentApproved(criticism) THEN "exit" ELSE "write"]

\* the loop is left by the break or at its bound:
\* Ok(add_sources_section(&current_document))
DocumentReturns ==
    /\ UNCHANGED notDoc
    /\ \/ doc.pc = "exit"
       \/ doc.pc = "write" /\ doc.iteration >= doc.max_iterations
    /\ doc' = [doc EXCEPT !.pc = "returned",
                          !.final_document = add_sources_section(doc.current_document)]

(***************************************************************************)
(* The result channel of execute_workers_with_refinement: research.rs      *)
(***************************************************************************)
\* the WorkerResult of the worker of sub-question q
WorkerResult(q) == [question |-> q]

\* a receive that hands over the newest message of the channel
recv_newest(rx) ==
    [result |-> rx[Len(rx)], rest |-> SubSeq(rx, 1, Len(rx) - 1)]

\* rx.recv() of the mpsc channel: the oldest message, and what stays queued
recv(rx) == [result |-> Head(rx), rest |-> Tail(rx)]

\* the metadata of the progress memory written after a result
progress_metadata(all_results, total_initial_workers) ==
    [completed_count |-> Len(all_results),
     total_initial_workers |-> total_initial_workers,
     midpoint_threshold |-> (total_initial_workers + 1) \div 2]

NoDispatchLoop ==
    [pc |-> "none", running |-> {}, rx |-> <<>>, sent |-> <<>>,
     all_results |-> <<>>, progress |-> <<>>, active_workers |-> 0,
     total_initial_workers |-> 0, gap_workers_spawned |-> FALSE, panicked |-> {}]

\* the loop is entered with n initial workers spawned
DispatchLoopStarts(n) ==
    [NoDispatchLoop EXCEPT !.pc = "loop", !.running = 1..n,
                           !.active_workers = n, !.total_initial_workers = n]

\* the closure of the worker of sub-question q ends:
\* let _ = tx.send(worker_result).await
SendsWorkerResult(q) ==
    /\ UNCHANGED notDisp
    /\ q \in disp.running
    /\ disp' = [disp EXCEPT
                  !.running = @ \ {q},
                  !.rx = IF disp.pc = "loop" THEN Append(@, WorkerResult(q)) ELSE @,
                  !.sent = IF disp.pc = "loop" THEN Append(@, WorkerResult(q)) ELSE @]

\* the task of the worker of sub-question q ends by a panic inside
\* execute_worker (the unreachable!() of execute_http_tool for a tool whose
\* method is PUT, PATCH or DELETE): the runtime drops the closure, tx.send
\* is never reached and only the JoinHandle learns of it
WorkerPanics(q) ==
    /\ UNCHANGED notDisp
    /\ q \in disp.running
    /\ disp' = [disp EXCEPT !.running = @ \ {q}, !.panicked = @ \cup {q}]

\* the branch Some(gap_questions) = gap_rx.recv(), here with one gap
\* question: its worker is spawned and active_workers += 1
RecvGapQuestions ==
    /\ UNCHANGED notDisp
    /\ disp.pc = "loop"
    /\ ~disp.gap_workers_spawned
    /\ disp' = [disp EXCEPT
                  !.gap_workers_spawned = TRUE,
                  !.running = @ \cup {disp.total_initial_workers + 1},
                  !.active_workers = @ + 1]

\* the branch Some(result) = rx.recv(): all_results.push(result), the
\* progress memory (an Err of store_memory is dropped), active_workers -= 1
\* and the break at 0
RecvWorkerResult ==
    /\ UNCHANGED notDisp
    /\ disp.pc = "loop"
    /\ disp.rx # <<>>
    /\ LET received == recv(disp.rx)
           all_results == Append(disp.all_results, received.result)
           memory == [metadata |-> progress_metadata(all_results, disp.total_initial_workers),
                      after |-> received.result]
       IN  \E stored \in BOOLEAN :
             disp' = [disp EXCEPT
                        !.rx = received.rest,
                        !.all_results = all_results,
                        !.progress = IF stored THEN Append(@, memory) ELSE @,
                        !.active_workers = @ - 1,
                        !.pc = IF disp.active_workers = 1 THEN "left" ELSE @]

(***************************************************************************)
(* Reading a response of an MCP server: tools.rs read_mcp_response         *)
(***************************************************************************)
\* what read_line can hand over: the end of the stream (0 bytes), a line
\* that is empty once trimmed, a line that parses as JSON, a line that
\* starts with { or [ and does not parse, any other text
LineKinds == {"eof", "blank", "json", "broken_json", "debug"}

\* a reader that never gives up
NeverTooMany(attempts) == FALSE

\* attempts > 10, after attempts += 1
TooManyAttempts(attempts) == attempts > 10

\* attempts > 5, for a line that looks like JSON and does not parse
TooManyRetries(attempts) == attempts > 5

NoMcpRead ==
    [pc |-> "none", attempts |-> 0, last |-> "none", error |-> "none",
     read |-> [kind \in LineKinds |-> 0]]

\* the connection is locked and found: let mut attempts = 0
McpReadStarts == [NoMcpRead EXCEPT !.pc = "reading"]

\* the number of lines read so far
LinesRead == mcp_read.read["blank"] + mcp_read.read["json"]
               + mcp_read.read["broken_json"] + mcp_read.read["debug"]

\* one turn of the loop on a line of this kind
ReadLine(kind) ==
    /\ UNCHANGED notMcpRead
    /\ mcp_read.pc = "reading"
    /\ LinesRead < MaxLines
    /\ LET counted == [mcp_read EXCEPT !.last = kind, !.read[kind] = @ + 1]
           attempts == mcp_read.attempts + 1
       IN  mcp_read' =
             CASE kind = "eof" ->
                    [counted EXCEPT !.pc = "err", !.error = "disconnected unexpectedly"]
               [] kind = "blank" -> counted
               [] kind = "json" -> [counted EXCEPT !.pc = "ok"]
               [] kind = "broken_json" /\ TooManyRetries(mcp_read.attempts) ->
                    [counted EXCEPT !.pc = "err", !.error = "failed to parse after retries"]
               [] OTHER ->
                    IF TooManyAttempts(attempts)
                    THEN [counted EXCEPT !.attempts = attempts, !.pc = "err",
                                         !.error = "too many attempts"]
                    ELSE [counted EXCEPT !.attempts = attempts]

\* connection.stdout.read_line(&mut line).await? returns an error
ReadLineFails ==
    /\ UNCHANGED notMcpRead
    /\ mcp_read.pc = "reading"
    /\ mcp_read' = [mcp_read EXCEPT !.pc = "err", !.error = "read error"]

(***************************************************************************)
(* The tool calls of one reply: ollama.rs query_internal_with_iterations   *)
(***************************************************************************)
\* the JSON objects of a reply: two tool calls, which have a tool_type and a
\* tool_name member, and an object that has neither
JsonItems == {"call_a", "call_b", "other"}

\* tool_call.get("tool_type").is_some() && tool_call.get("tool_name").is_some()
IsToolCall(item) == item \in {"call_a", "call_b"}

\* what serde_json makes of one attempt's text: no JSON at all, an array of
\* objects, one object
NotJson == [kind |-> "text", items |-> <<>>]
JsonArray(items) == [kind |-> "array", items |-> items]
JsonObject(item) == [kind |-> "object", items |-> <<item>>]

Parsed ==
    {NotJson} \cup {JsonArray(items) : items \in SeqsUpTo(JsonItems, MaxItems)}
              \cup {JsonObject(item) : item \in JsonItems}

\* parse_attempts: the de-fenced text, the raw trimmed text and, when
\* extract_json_object finds one, the text from the first { to its }
ParseAttempts ==
    {<<cleaned, trimmed>> : cleaned \in Parsed, trimmed \in Parsed}
    \cup {<<cleaned, trimmed, extracted>> :
            cleaned \in Parsed, trimmed \in Parsed,
            extracted \in {NotJson} \cup {JsonObject(item) : item \in JsonItems}}

\* a loop that goes on to the next attempt whatever was executed
NeverStops(tools_executed) == FALSE

\* if tools_executed { break; }
StopsAfter(tools_executed) == tools_executed

NoParse ==
    [pc |-> "none", parse_attempts |-> <<>>, attempt |-> 0, item |-> 0,
     branch |-> "none", tools_executed |-> FALSE, tool_results |-> <<>>]

\* let mut tools_executed = false; let mut tool_results = Vec::new();
\* for attempt in &parse_attempts
ParseStarts(parse_attempts) ==
    [NoParse EXCEPT !.pc = "loop", !.parse_attempts = parse_attempts,
                    !.attempt = 1, !.item = 1, !.branch = "array"]

CurrentAttempt == parse.parse_attempts[parse.attempt]

\* the attempt parses as Vec<Value>: the next element of the array; a tool
\* call is executed, and an Err of execute_tool_call_get_result leaves the
\* query through the ?
ArrayItem ==
    /\ UNCHANGED notParse
    /\ parse.pc = "loop" /\ parse.branch = "array"
    /\ parse.attempt <= Len(parse.parse_attempts)
    /\ CurrentAttempt.kind = "array"
    /\ parse.item <= Len(CurrentAttempt.items)
    /\ LET tool_call == CurrentAttempt.items[parse.item]
       IN  IF IsToolCall(tool_call)
           THEN \/ parse' = [parse EXCEPT
                               !.tool_results = Append(@, [attempt |-> parse.attempt,
                                                           item |-> parse.item,
                                                           tool_call |-> tool_call]),
                               !.tools_executed = TRUE,
                               !.item = @ + 1]
                \/ parse' = [parse EXCEPT !.pc = "error"]
           ELSE parse' = [parse EXCEPT !.item = @ + 1]

\* after the array, or when the attempt is no array: the break when a call
\* was executed, else the attempt is tried as a single value
ArrayEnds ==
    /\ UNCHANGED notParse
    /\ parse.pc = "loop" /\ parse.branch = "array"
    /\ parse.attempt <= Len(parse.parse_attempts)
    /\ IF CurrentAttempt.kind = "array"
       THEN /\ parse.item > Len(CurrentAttempt.items)
            /\ parse' = IF StopsAfter(parse.tools_executed)
                        THEN [parse EXCEPT !.pc = "done"]
                        ELSE [parse EXCEPT !.branch = "single"]
       ELSE parse' = [parse EXCEPT !.branch = "single"]

\* if !tools_executed: the attempt as one Value; a tool call is executed
\* and the loop is left, anything else goes on to the next attempt
SingleValue ==
    /\ UNCHANGED notParse
    /\ parse.pc = "loop" /\ parse.branch = "single"
    /\ LET next == [parse EXCEPT !.attempt = @ + 1, !.item = 1, !.branch = "array"]
       IN  IF ~parse.tools_executed /\ CurrentAttempt.kind = "object"
                /\ IsToolCall(CurrentAttempt.items[1])
           THEN \/ parse' = [parse EXCEPT
                               !.tool_results = Append(@, [attempt |-> parse.attempt,
                                                           item |-> 1,
                                                           tool_call |-> CurrentAttempt.items[1]]),
                               !.tools_executed = TRUE,
                               !.pc = "done"]
                \/ parse' = [parse EXCEPT !.pc = "error"]
           ELSE parse' = next

\* no attempt is left
AttemptsEnd ==
    /\ UNCHANGED notParse
    /\ parse.pc = "loop"
    /\ parse.attempt > Len(parse.parse_attempts)
    /\ parse' = [parse EXCEPT !.pc = "done"]

(***************************************************************************)
(* The workers of a session on the one tool executor: research.rs          *)
(* execute_worker, tools.rs record_tool_call, ollama.rs                    *)
(***************************************************************************)
\* worker.available_tools of a configuration: no whitelist (empty), one
\* tool, two tools
Whitelists == {{}, {<<"weather">>}, {<<"weather">>, <<"memory_store">>}}

\* the tool_name and tool_type strings a reply of the model may hold
ReplyToolNames == {<<"memory_store">>, <<"weather">>, <<"fs", "read">>, <<"nope">>}
ReplyToolTypes == {"http", "shell"}

\* the descriptions put in the prompt: tools.retain(|tool|
\* allowed.contains(&tool.name)) when the whitelist is not empty
OfferedTools(allowed) ==
    SelectSeq(get_tool_descriptions, LAMBDA tool : allowed = {} \/ tool.name \in allowed)

NoAgents ==
    [agent_name |-> "none", worker |-> [w \in WorkerNames |-> "none"],
     available_tools |-> [w \in WorkerNames |-> {}],
     calls |-> [w \in WorkerNames |-> 0], tool_calls |-> <<>>, executed |-> <<>>]

\* tokio::spawn of each worker's closure; ToolExecutor::new leaves
\* agent_name at None
AgentsSpawned(available_tools) ==
    [NoAgents EXCEPT !.worker = [w \in WorkerNames |-> "spawned"],
                     !.available_tools = available_tools]

\* execute_worker: executor.lock().await.set_agent_name(worker.name.clone())
\* and worker_client.set_available_tools(available)
AgentStarts(w) ==
    /\ UNCHANGED notAgents
    /\ agents.worker[w] = "spawned"
    /\ agents' = [agents EXCEPT !.worker[w] = "running", !.agent_name = w]

\* a reply of worker w's model holds a tool call: execute_tool_call_get_result
\* finds the type by the name in the whole catalog and runs the executor
\* operation of that type under the executor's lock; the operation records
\* the call with the executor's agent_name; a name that no tool has ends in
\* an error of the operation or in "not available"
AgentCallsTool(w, tool_name, tool_type) ==
    /\ UNCHANGED notAgents
    /\ agents.worker[w] = "running"
    /\ agents.calls[w] < MaxAgentCalls
    /\ LET type == actual_tool_type(tool_name, tool_type)
           row == [agent_name |-> agents.agent_name, by |-> w, tool_name |-> tool_name]
           run == [by |-> w, tool_name |-> tool_name, tool_type |-> type,
                   offered |-> \E i \in 1..Len(OfferedTools(agents.available_tools[w])) :
                                  OfferedTools(agents.available_tools[w])[i].name = tool_name]
       IN  agents' = [agents EXCEPT
                        !.calls[w] = @ + 1,
                        !.tool_calls = IF type \in {"builtin", "http", "mcp"}
                                       THEN Append(@, row) ELSE @,
                        !.executed = IF FindDescription(tool_name) # 0
                                     THEN Append(@, run) ELSE @]

\* the worker's query returns
AgentReturns(w) ==
    /\ UNCHANGED notAgents
    /\ agents.worker[w] = "running"
    /\ agents' = [agents EXCEPT !.worker[w] = "done"]

(***************************************************************************)
(* Concurrent calls of one MCP server: tools.rs send_mcp_message,          *)
(* read_mcp_response, initialize_mcp_connection, execute_mcp_tool;         *)
(* ollama.rs execute_tool_call_get_result; main.rs                         *)
(***************************************************************************)
\* the thread of main.rs that initializes the servers, and two workers
McpCallers == {"handshake", "w1", "w2"}

\* the messages one holder of the executor sends before it lets go:
\* initialize and tools/list for the handshake, one tools/call for a tool
\* call
MessagesOf(c) == IF c = "handshake" THEN 2 ELSE 1

\* the times a caller takes the executor: the handshake once
McpCallsOf(c) == IF c = "handshake" THEN 1 ELSE MaxMcpCalls

\* a line of the server's stdout: debug output, or the JSON response to a
\* request
DebugLine == [kind |-> "debug", to |-> [by |-> "server", call |-> 0, n |-> 0]]
ResponseTo(request) == [kind |-> "json", to |-> request]

\* a lock that is always granted
AlwaysFree(holder) == TRUE

\* executor.lock().await is granted when no task holds the executor
ExecutorFree(holder) == holder = "free"

NoMcp ==
    [pc |-> [c \in McpCallers |-> "none"], calls |-> [c \in McpCallers |-> 0],
     sent |-> [c \in McpCallers |-> 0], executor |-> "free", connections |-> "free",
     connected |-> FALSE, stdin |-> <<>>, stdout |-> <<>>, logged |-> 0,
     answers |-> {}, failed |-> {}]

McpCallersReady == [NoMcp EXCEPT !.pc = [c \in McpCallers |-> "idle"]]

\* let exec = executor.lock().await; the handshake then starts the process
\* and inserts the connection (connect_mcp_server)
LocksExecutor(c) ==
    /\ UNCHANGED notMcp
    /\ mcp.pc[c] = "idle"
    /\ mcp.calls[c] < McpCallsOf(c)
    /\ ExecutorFree(mcp.executor)
    /\ mcp' = [mcp EXCEPT !.pc[c] = "locked", !.calls[c] = @ + 1, !.sent[c] = 0,
                          !.executor = c,
                          !.connected = @ \/ c = "handshake"]

\* send_mcp_message: locks the connections, writes the message and a newline
\* to the server's stdin, unlocks
send_mcp_message(c) ==
    /\ UNCHANGED notMcp
    /\ mcp.pc[c] = "locked"
    /\ mcp.connected
    /\ mcp.connections = "free"
    /\ mcp' = [mcp EXCEPT !.pc[c] = "sent", !.sent[c] = @ + 1,
                          !.stdin = Append(@, [by |-> c, call |-> mcp.calls[c], n |-> mcp.sent[c] + 1])]

\* send_mcp_message: "MCP server not connected"; the ? ends the call and the
\* executor is let go
SendFails(c) ==
    /\ UNCHANGED notMcp
    /\ mcp.pc[c] = "locked"
    /\ ~mcp.connected
    /\ mcp' = [mcp EXCEPT !.pc[c] = "idle", !.executor = "free",
                          !.failed = @ \union {[by |-> c, call |-> mcp.calls[c]]}]

\* read_mcp_response: locks the connections and keeps them for all its reads
read_mcp_response(c) ==
    /\ UNCHANGED notMcp
    /\ mcp.pc[c] = "sent"
    /\ mcp.connections = "free"
    /\ mcp' = [mcp EXCEPT !.pc[c] = "reading", !.connections = c]

\* read_line returns a line of the server's stdout: a line that is not JSON
\* is skipped, a JSON line is the response and the connections are unlocked
ReadsLine(c) ==
    /\ UNCHANGED notMcp
    /\ mcp.pc[c] = "reading"
    /\ mcp.stdout # <<>>
    /\ IF Head(mcp.stdout).kind = "debug"
       THEN mcp' = [mcp EXCEPT !.stdout = Tail(@)]
       ELSE mcp' = [mcp EXCEPT !.stdout = Tail(@), !.pc[c] = "got", !.connections = "free",
                               !.answers = @ \union
                                   {[request |-> [by |-> c, call |-> mcp.calls[c], n |-> mcp.sent[c]],
                                     response |-> Head(mcp.stdout)]}]

\* the response is in hand: the handshake sends its next message, a tool
\* call returns and the guard of the executor is dropped
McpCallReturns(c) ==
    /\ UNCHANGED notMcp
    /\ mcp.pc[c] = "got"
    /\ IF mcp.sent[c] < MessagesOf(c)
       THEN mcp' = [mcp EXCEPT !.pc[c] = "locked"]
       ELSE mcp' = [mcp EXCEPT !.pc[c] = "idle", !.executor = "free"]

\* the server writes a line of debug output to its stdout
ServerLogs ==
    /\ UNCHANGED notMcp
    /\ mcp.logged < MaxDebugLines
    /\ mcp.connected
    /\ mcp' = [mcp EXCEPT !.logged = @ + 1, !.stdout = Append(@, DebugLine)]

\* the server reads the next request of its stdin and writes the response
\* to it as one JSON line
ServerAnswers ==
    /\ UNCHANGED notMcp
    /\ mcp.stdin # <<>>
    /\ mcp' = [mcp EXCEPT !.stdin = Tail(@),
                          !.stdout = Append(@, ResponseTo(Head(mcp.stdin)))]

(***************************************************************************)
(* The mutexes of a session and the order in which the tasks take them:    *)
(* ollama.rs execute_tool_call_get_result, tools.rs, shared_memory.rs,     *)
(* research.rs                                                             *)
(***************************************************************************)
\* Arc<Mutex<ToolExecutor>>, ToolExecutor.mcp_connections, SharedMemory.db,
\* ToolExecutor.tool_usage
Mutexes == {"executor", "mcp_connections", "db", "tool_usage"}

\* two workers (or debate agents) with their LM clients, the supervisor and
\* the orchestrator
LockTasks == {"w1", "w2", "supervisor", "orchestrator"}

lock(m) == <<[op |-> "lock", m |-> m]>>
try_lock(m) == <<[op |-> "try_lock", m |-> m]>>
drop(m) == <<[op |-> "drop", m |-> m]>>

\* a mutex whose guard is never dropped
GuardKept(holder, m) == holder

\* the guard of m goes out of scope or is dropped
Unlocked(holder, m) == [holder EXCEPT ![m] = "free"]

\* SharedMemory::store_memory, record_tool_call, clear: one guard of db
store_guard == lock("db") \o drop("db")

\* SharedMemory::update_or_store_memory: looks the row up, drop(db), then
\* locks again for the UPDATE, or calls store_memory
update_or_store_guards == lock("db") \o drop("db") \o lock("db") \o drop("db")

\* query_internal_with_iterations: executor.lock().await
\* .get_tool_descriptions() for the prompt
tool_descriptions == lock("executor") \o drop("executor")

\* calculate_rate_limit_delay
calculate_rate_limit_delay == lock("tool_usage") \o drop("tool_usage")

\* execute_tool_call_get_result, "http": the type is looked up under one
\* guard of the executor, the call runs under a second
http_tool_call ==
    tool_descriptions \o lock("executor") \o store_guard \o calculate_rate_limit_delay
                      \o drop("executor")

\* execute_tool_call_get_result, "builtin" with a memory tool: the call is
\* recorded, then the tool stores or updates a memory
builtin_tool_call ==
    tool_descriptions \o lock("executor") \o store_guard \o update_or_store_guards
                      \o drop("executor")

\* execute_tool_call_get_result, "mcp" with a name without a server: the
\* first server is read under a guard of its own, then the call is recorded,
\* rate limited, sent and its response read
mcp_tool_call ==
    tool_descriptions \o lock("executor") \o drop("executor")
                      \o lock("executor") \o store_guard \o calculate_rate_limit_delay
                      \o lock("mcp_connections") \o drop("mcp_connections")
                      \o lock("mcp_connections") \o drop("mcp_connections")
                      \o drop("executor")

\* research(): if let Ok(mut exec) = executor.try_lock() { set_query_id }
set_query_id == try_lock("executor") \o drop("executor")

\* what a task may run
StepsOf(t) ==
    CASE t \in {"w1", "w2"} ->
            {tool_descriptions, http_tool_call, builtin_tool_call, mcp_tool_call,
             update_or_store_guards}
      [] t = "supervisor" -> {update_or_store_guards, store_guard}
      [] OTHER -> {set_query_id, store_guard}

NoLocks ==
    [holder |-> [m \in Mutexes |-> "free"], steps |-> [t \in LockTasks |-> <<>>],
     runs |-> [t \in LockTasks |-> 0], ready |-> FALSE]

TasksReady == [NoLocks EXCEPT !.ready = TRUE]

\* a task starts one of its operations
TaskBegins(t, steps) ==
    /\ UNCHANGED notLocks
    /\ locks.ready
    /\ locks.steps[t] = <<>>
    /\ locks.runs[t] < MaxRuns
    /\ \A m \in Mutexes : locks.holder[m] # t
    /\ locks' = [locks EXCEPT !.steps[t] = steps, !.runs[t] = @ + 1]

\* m.lock(): the task goes on when no task holds m
TaskLocks(t) ==
    /\ UNCHANGED notLocks
    /\ locks.steps[t] # <<>>
    /\ Head(locks.steps[t]).op = "lock"
    /\ locks.holder[Head(locks.steps[t]).m] = "free"
    /\ locks' = [locks EXCEPT !.steps[t] = Tail(@), !.holder[Head(locks.steps[t]).m] = t]

\* m.try_lock(): Err when a task holds m, and the block with its guard is
\* skipped
TaskTriesLock(t) ==
    /\ UNCHANGED notLocks
    /\ locks.steps[t] # <<>>
    /\ Head(locks.steps[t]).op = "try_lock"
    /\ IF locks.holder[Head(locks.steps[t]).m] = "free"
       THEN locks' = [locks EXCEPT !.steps[t] = Tail(@), !.holder[Head(locks.steps[t]).m] = t]
       ELSE locks' = [locks EXCEPT !.steps[t] = Tail(Tail(@))]

\* the guard is dropped
TaskDrops(t) ==
    /\ UNCHANGED notLocks
    /\ locks.steps[t] # <<>>
    /\ Head(locks.steps[t]).op = "drop"
    /\ locks' = [locks EXCEPT !.steps[t] = Tail(@),
                              !.holder = Unlocked(@, Head(locks.steps[t]).m)]

\* every task has run its operations
TaskEnds(t) ==
    /\ UNCHANGED notLocks
    /\ locks.ready
    /\ locks.steps[t] = <<>>
    /\ locks.runs[t] = MaxRuns
    /\ \A u \in LockTasks : locks.steps[u] = <<>> /\ locks.runs[u] = MaxRuns
    /\ locks' = [locks EXCEPT !.ready = FALSE]

(***************************************************************************)
(* Specifications                                                          *)
(***************************************************************************)
\* SharedMemory::new on a fresh database
EmptyMemory ==
    /\ memories = {}
    /\ vec_memories = {}
    /\ db = NoTask
    /\ mtask = [t \in MemTasks |-> IdleTask]
    /\ calls = 0
    /\ now = 0
    /\ cleared = FALSE

\* no DynamicContext built yet
NoContext ==
    /\ dctx = [iteration |-> 0, working_notes |-> <<>>, state |-> {},
               shared_memory |-> FALSE, last_memory_sync |-> 0]
    /\ prompt = [caller |-> "none", ctx |-> dctx, text |-> <<>>]
    /\ ctx_ops = 0
    /\ ctx_log = NewLog


\* no research session yet
NoSessionWith(shared) ==
    /\ orch = Idle
    /\ sup = NoSupervisor
    /\ tasks = [initial |-> 0, gap |-> 0, follow_up |-> 0, follow_up_task |-> 0]
    /\ chan = [rx |-> 0, rx_errors |-> 0, gap_rx |-> <<>>]
    /\ smem = [shared |-> shared, completed_count |-> 0, findings |-> FALSE]
    /\ hist = [sub_questions |-> {}, gap_sent |-> 0, gap_acted |-> 0,
               gap_spawned |-> 0, late_actor |-> "none", failures |-> 0,
               plan_store |-> FALSE, combined |-> FALSE]

NoSession == NoSessionWith(TRUE)

\* no query under way in the LM client
NoQuery ==
    /\ lm = [pc |-> "done", iteration |-> 0, rounds |-> 0, max_tool_turns |-> 0,
             allow_tools |-> FALSE, tool_results_context |-> <<>>,
             ret |-> [kind |-> "none", text |-> <<>>]]
    /\ folded = <<>>

\* no HTTP tool call under way
NoHttpCall ==
    http = [pc |-> "done", status_code |-> NoStatus, outcome |-> "none",
            tool |-> [method |-> "GET", acceptable_status |-> {},
                      error_status |-> {}, expected_status |-> default_expected_status]]

\* no research session has used the tool executor yet
NoToolCallWith(shared_memory) ==
    /\ exec = NoExecutor(shared_memory)
    /\ tool_calls = <<>>
    /\ client = [c \in Clients |-> IdleClient]
    /\ rsess = [n |-> 0, query_id |-> NoQid, memories |-> {}]
    /\ rate_log = [k \in UsageKeys |-> NoRateLog]
    /\ exec_calls = 0

NoToolCall == NoToolCallWith(FALSE)

InitMem ==
    /\ EmptyMemory /\ NoContext /\ NoSession /\ NoQuery /\ NoHttpCall
    /\ refn = NoRefinement /\ NoToolCall
    /\ chat = NoChat
    /\ doc = NoDocumentLoop
    /\ disp = NoDispatchLoop
    /\ mcp_read = NoMcpRead
    /\ parse = NoParse
    /\ agents = NoAgents
    /\ mcp = NoMcp
    /\ locks = NoLocks

NextMem ==
    \E t \in MemTasks :
        \/ store_memory(t)
        \/ StoreInsertVec(t)
        \/ update_or_store_memory(t)
        \/ UpdateOrStoreInsert(t)
        \/ UpdateMemoryRow(t)
        \/ UpdateVecRow(t)
        \/ clear(t)
        \/ ClearVec(t)
        \/ MemReadByType(t)
        \/ get_stats(t)

SpecMem == InitMem /\ [][NextMem]_vars

InitCtx ==
    /\ refn = NoRefinement
    /\ NoToolCall
    /\ chat = NoChat
    /\ doc = NoDocumentLoop
    /\ disp = NoDispatchLoop
    /\ mcp_read = NoMcpRead
    /\ parse = NoParse
    /\ agents = NoAgents
    /\ mcp = NoMcp
    /\ locks = NoLocks
    /\ NoSession
    /\ NoQuery
    /\ NoHttpCall
    /\ \E np \in {0, 2}, nf \in {0, 2}, nd \in 0..MaxDiscoveries,
          ni \in {0, 3}, ne \in {0, 3} :
         /\ memories = StoredMemory(np, nf, nd, ni, ne)
         /\ vec_memories = {[memory_id |-> m.id, embedding |-> m.content] :
                              m \in StoredMemory(np, nf, nd, ni, ne)}
    /\ db = NoTask
    /\ mtask = [t \in MemTasks |-> IdleTask]
    /\ calls = 0
    /\ now = 0
    /\ cleared = FALSE
    /\ NoContext

NextCtx ==
    \/ \E sm \in BOOLEAN : execute_worker_context(sm)
    \/ next_iteration
    \/ add_note
    \/ clear_notes
    \/ set_state
    \/ BuildPromptContext

SpecCtx == InitCtx /\ [][NextCtx]_vars

\* the orchestrator with or without a shared memory (SharedMemory::new may
\* have failed), and a stale findings row or none
InitRes ==
    /\ refn = NoRefinement
    /\ NoToolCall
    /\ chat = NoChat
    /\ doc = NoDocumentLoop
    /\ disp = NoDispatchLoop
    /\ mcp_read = NoMcpRead
    /\ parse = NoParse
    /\ agents = NoAgents
    /\ mcp = NoMcp
    /\ locks = NoLocks
    /\ EmptyMemory
    /\ NoContext
    /\ \E shared \in BOOLEAN : NoSessionWith(shared)
    /\ NoQuery
    /\ NoHttpCall

NextRes ==
    \/ research
    \/ DecomposeAndDispatch
    \/ Cancel
    \/ \E k \in WorkerKinds : WorkerActs(k)
    \/ \E k \in WorkerKinds : WorkerFinishes(k)
    \/ DispatchGap
    \/ DispatchResult
    \/ JoinHandles
    \/ CombineAndReturn
    \/ FollowUpTask
    \/ SupervisorTick
    \/ SupervisorAnalysis
    \/ SupervisorGapReply
    \/ SupervisorGapSend

SpecRes == InitRes /\ [][NextRes]_vars

\* a query starts (query, query_streaming): max_tool_turns is a setting of
\* the client, tools are allowed when an executor is set
InitLm ==
    /\ refn = NoRefinement
    /\ NoToolCall
    /\ chat = NoChat
    /\ doc = NoDocumentLoop
    /\ disp = NoDispatchLoop
    /\ mcp_read = NoMcpRead
    /\ parse = NoParse
    /\ agents = NoAgents
    /\ mcp = NoMcp
    /\ locks = NoLocks
    /\ EmptyMemory
    /\ NoContext
    /\ NoSession
    /\ NoHttpCall
    /\ \E max \in 0..MaxToolTurns, allow \in BOOLEAN :
         lm = [pc |-> "loop", iteration |-> 0, rounds |-> 0, max_tool_turns |-> max,
               allow_tools |-> allow, tool_results_context |-> <<>>,
               ret |-> [kind |-> "none", text |-> <<>>]]
    /\ folded = <<>>

NextLm ==
    \/ LoopIteration
    \/ ChatFails
    \/ ChatAnswers
    \/ ChatCallsTools

SpecLm == InitLm /\ [][NextLm]_vars

\* an HTTP tool of the configuration is called
InitHttp ==
    /\ refn = NoRefinement
    /\ NoToolCall
    /\ chat = NoChat
    /\ doc = NoDocumentLoop
    /\ disp = NoDispatchLoop
    /\ mcp_read = NoMcpRead
    /\ parse = NoParse
    /\ agents = NoAgents
    /\ mcp = NoMcp
    /\ locks = NoLocks
    /\ EmptyMemory
    /\ NoContext
    /\ NoSession
    /\ NoQuery
    /\ \E tool \in HttpTools :
         http = [pc |-> "called", status_code |-> NoStatus, outcome |-> "none",
                 tool |-> tool]

NextHttp ==
    \/ HttpSend
    \/ HttpNoResponse
    \/ HttpResponse

SpecHttp == InitHttp /\ [][NextHttp]_vars


\* refinement_loop is called with the combined output, under a configured
\* max_refinement_iterations
InitRefine ==
    /\ EmptyMemory
    /\ NoContext
    /\ NoSession
    /\ NoQuery
    /\ NoHttpCall
    /\ NoToolCall
    /\ chat = NoChat
    /\ doc = NoDocumentLoop
    /\ disp = NoDispatchLoop
    /\ mcp_read = NoMcpRead
    /\ parse = NoParse
    /\ agents = NoAgents
    /\ mcp = NoMcp
    /\ locks = NoLocks
    /\ \E max \in 0..MaxRefinements : refn = RefinementStarts(max)

NextRefine ==
    \/ conduct_debate
    \/ refine_output
    \/ RefinementReturns

SpecRefine == InitRefine /\ [][NextRefine]_vars

\* the application has built the executor, with or without a shared memory
\* attached (set_tool_executor attaches it under try_lock); no research
\* session has started
InitTool ==
    /\ chat = NoChat
    /\ doc = NoDocumentLoop
    /\ disp = NoDispatchLoop
    /\ mcp_read = NoMcpRead
    /\ parse = NoParse
    /\ agents = NoAgents
    /\ mcp = NoMcp
    /\ locks = NoLocks
    /\ EmptyMemory
    /\ NoContext
    /\ NoSession
    /\ NoQuery
    /\ NoHttpCall
    /\ refn = NoRefinement
    /\ \E shared_memory \in BOOLEAN : NoToolCallWith(shared_memory)

NextTool ==
    \/ ResearchStarts
    \/ \E c \in Clients :
         \/ \E tc \in ToolCalls : ToolCallParsed(c, tc, MaxToolExecs)
         \/ LookupType(c)
         \/ ExecuteBuiltin(c)
         \/ ExecuteHttp(c)
         \/ ExecuteMcp(c)
         \/ ToolNotAvailable(c)
         \/ apply_rate_limit(c)
         \/ ToolReturns(c)
         \/ QueryReturns(c)

SpecTool == InitTool /\ [][NextTool]_vars

\* one session is under way and its workers call the rate-limited tools of
\* the catalog; the executor has no shared memory attached
InitRate ==
    /\ chat = NoChat
    /\ doc = NoDocumentLoop
    /\ disp = NoDispatchLoop
    /\ mcp_read = NoMcpRead
    /\ parse = NoParse
    /\ agents = NoAgents
    /\ mcp = NoMcp
    /\ locks = NoLocks
    /\ EmptyMemory
    /\ NoContext
    /\ NoSession
    /\ NoQuery
    /\ NoHttpCall
    /\ refn = NoRefinement
    /\ exec = [NoExecutor(FALSE) EXCEPT !.query_id = QueryIdOf(1)]
    /\ tool_calls = <<>>
    /\ client = [c \in Clients |-> IdleClient]
    /\ rsess = [n |-> 1, query_id |-> QueryIdOf(1), memories |-> {}]
    /\ rate_log = [k \in UsageKeys |-> NoRateLog]
    /\ exec_calls = 0

NextRate ==
    \/ Tick
    \/ \E c \in Clients :
         \/ \E tc \in RateCalls : ToolCallParsed(c, tc, MaxRateCalls)
         \/ LookupType(c)
         \/ ExecuteHttp(c)
         \/ ExecuteMcp(c)
         \/ apply_rate_limit(c)
         \/ ToolReturns(c)
         \/ QueryReturns(c)

SpecRate == InitRate /\ [][NextRate]_vars

\* nothing else is under way
NotChatting ==
    /\ EmptyMemory
    /\ NoContext
    /\ NoSession
    /\ NoQuery
    /\ NoHttpCall
    /\ refn = NoRefinement
    /\ NoToolCall

InitChat ==
    /\ NotChatting
    /\ chat = ChatStarts
    /\ doc = NoDocumentLoop
    /\ disp = NoDispatchLoop
    /\ mcp_read = NoMcpRead
    /\ parse = NoParse
    /\ agents = NoAgents
    /\ mcp = NoMcp
    /\ locks = NoLocks

NextChat ==
    \/ ChatSendSucceeds
    \/ ChatSendFails
    \/ ChatSleeps

SpecChat == InitChat /\ [][NextChat]_vars

\* document_writing_loop is called under a configured
\* max_document_iterations
InitDoc ==
    /\ NotChatting
    /\ chat = NoChat
    /\ \E max \in 0..MaxDocIterations : doc = DocumentLoopStarts(max)
    /\ disp = NoDispatchLoop
    /\ mcp_read = NoMcpRead
    /\ parse = NoParse
    /\ agents = NoAgents
    /\ mcp = NoMcp
    /\ locks = NoLocks

NextDoc ==
    \/ write_document
    \/ review_document
    \/ DocumentReturns

SpecDoc == InitDoc /\ [][NextDoc]_vars

\* execute_workers_with_refinement has spawned the initial workers of a
\* plan and enters its loop
InitDispatch ==
    /\ NotChatting
    /\ chat = NoChat
    /\ doc = NoDocumentLoop
    /\ \E n \in 1..MaxDispatched : disp = DispatchLoopStarts(n)
    /\ mcp_read = NoMcpRead
    /\ parse = NoParse
    /\ agents = NoAgents
    /\ mcp = NoMcp
    /\ locks = NoLocks

NextDispatch ==
    \/ \E q \in 1..(MaxDispatched + 1) : SendsWorkerResult(q)
    \/ \E q \in 1..(MaxDispatched + 1) : WorkerPanics(q)
    \/ RecvGapQuestions
    \/ RecvWorkerResult

SpecDispatch == InitDispatch /\ [][NextDispatch]_vars

\* the runtime runs every spawned task and the future of the dispatch: a
\* worker task that can end does end, and a result that can be received is
\* received
SpecDispatchLive ==
    /\ SpecDispatch
    /\ WF_vars(\E q \in 1..(MaxDispatched + 1) : SendsWorkerResult(q) \/ WorkerPanics(q))
    /\ WF_vars(RecvWorkerResult)

\* read_mcp_response is called on a connected server
InitMcpRead ==
    /\ NotChatting
    /\ chat = NoChat
    /\ doc = NoDocumentLoop
    /\ disp = NoDispatchLoop
    /\ mcp_read = McpReadStarts
    /\ parse = NoParse
    /\ agents = NoAgents
    /\ mcp = NoMcp
    /\ locks = NoLocks

NextMcpRead ==
    \/ \E kind \in LineKinds : ReadLine(kind)
    \/ ReadLineFails

SpecMcpRead == InitMcpRead /\ [][NextMcpRead]_vars

\* a reply that looks like a tool call has been cut into its parse attempts
InitParse ==
    /\ NotChatting
    /\ chat = NoChat
    /\ doc = NoDocumentLoop
    /\ disp = NoDispatchLoop
    /\ mcp_read = NoMcpRead
    /\ agents = NoAgents
    /\ mcp = NoMcp
    /\ locks = NoLocks
    /\ \E parse_attempts \in ParseAttempts : parse = ParseStarts(parse_attempts)

NextParse ==
    \/ ArrayItem
    \/ ArrayEnds
    \/ SingleValue
    \/ AttemptsEnd

SpecParse == InitParse /\ [][NextParse]_vars

\* the workers of a plan have been spawned, each with the whitelist of its
\* configuration
InitAgents ==
    /\ NotChatting
    /\ chat = NoChat
    /\ doc = NoDocumentLoop
    /\ disp = NoDispatchLoop
    /\ mcp_read = NoMcpRead
    /\ parse = NoParse
    /\ mcp = NoMcp
    /\ locks = NoLocks
    /\ \E available_tools \in [WorkerNames -> Whitelists] : agents = AgentsSpawned(available_tools)

NextAgents ==
    \E w \in WorkerNames :
       \/ AgentStarts(w)
       \/ \E tool_name \in ReplyToolNames, tool_type \in ReplyToolTypes :
            AgentCallsTool(w, tool_name, tool_type)
       \/ AgentReturns(w)

SpecAgents == InitAgents /\ [][NextAgents]_vars

\* the MCP server's process has not been started; the handshake thread and
\* two workers are about to use it
InitMcp ==
    /\ NotChatting
    /\ chat = NoChat
    /\ doc = NoDocumentLoop
    /\ disp = NoDispatchLoop
    /\ mcp_read = NoMcpRead
    /\ parse = NoParse
    /\ agents = NoAgents
    /\ mcp = McpCallersReady
    /\ locks = NoLocks

NextMcp ==
    \/ \E c \in McpCallers :
          \/ LocksExecutor(c)
          \/ send_mcp_message(c)
          \/ SendFails(c)
          \/ read_mcp_response(c)
          \/ ReadsLine(c)
          \/ McpCallReturns(c)
    \/ ServerLogs
    \/ ServerAnswers

SpecMcp == InitMcp /\ [][NextMcp]_vars

\* no mutex is held; the tasks of a session are about to run
InitLocks ==
    /\ NotChatting
    /\ chat = NoChat
    /\ doc = NoDocumentLoop
    /\ disp = NoDispatchLoop
    /\ mcp_read = NoMcpRead
    /\ parse = NoParse
    /\ agents = NoAgents
    /\ mcp = NoMcp
    /\ locks = TasksReady

NextLocks ==
    \E t \in LockTasks :
       \/ \E steps \in StepsOf(t) : TaskBegins(t, steps)
       \/ TaskLocks(t)
       \/ TaskTriesLock(t)
       \/ TaskDrops(t)
       \/ TaskEnds(t)

SpecLocks == InitLocks /\ [][NextLocks]_vars
(***************************************************************************)
(* Properties                                                              *)
(***************************************************************************)
\* C1: whenever no call holds the connection (every state another task can
\* observe), a row exists in memories exactly when a row with the same id
\* exists in vec_memories, also after a call that failed past its first
\* statement.
C1_RowIffEmbedding == db = NoTask => MemIds = VecIds

\* C2: for a query id Q there is never more than one row with memory_type
\* Feedback, created_by supervisor and metadata.query_id = Q, whatever the
\* interleaving of update_or_store_memory calls.
C2_AtMostOneFeedbackRow ==
    Cardinality(MatchingIds("feedback", "supervisor", "q1")) <= 1

\* the memory holds something sync_from_shared_memory would show
MemoryHoldsSections == MemorySections # <<>>

\* C3: a worker's build_prompt_context, called on its freshly created
\* DynamicContext with a shared memory that holds a plan, feedback or
\* findings, returns a text that contains the memory sections.
C3_FreshContextShowsMemory ==
    (/\ prompt.caller = "execute_worker"
     /\ prompt.ctx.shared_memory
     /\ MemoryHoldsSections)
    => /\ Len(prompt.text) >= 2 + Len(MemorySections)
       /\ SubSeq(prompt.text, 3, 2 + Len(MemorySections)) = MemorySections

\* C4: when research() has returned (a document, the empty-plan text or an
\* error), no task spawned for the session makes a language-model request,
\* runs a tool or writes to the shared memory any more.
C4_NoTaskActsAfterReturn ==
    orch.session \in {"returned", "error"} => hist.late_actor = "none"

\* C5: when the session was cancelled, the caller holds the cancelled error
\* and neither the supervisor nor any worker makes a language-model request,
\* runs a tool or writes to the shared memory any more.
C5_NoTaskActsAfterCancel ==
    orch.session = "cancelled"
    => /\ orch.result = "query_cancelled_by_user"
       /\ hist.late_actor = "none"

\* C8: in one session at most one gap request is sent on the gap channel and
\* at most one is acted on by the dispatcher, however many supervisor ticks
\* follow the first request.
C8_OneGapRequest == hist.gap_sent <= 1 /\ hist.gap_acted <= 1

\* a gap request was sent and acted on, and a later tick of the supervisor
\* has its analysis under way with the latch set
C8_Witness ==
    /\ hist.gap_sent = 1
    /\ hist.gap_acted = 1
    /\ sup.gap_workers_requested
    /\ sup.pc = "analysis"

\* C9: when a gap request has been handled, the gap workers spawned are at
\* most min(3, max_worker_count - initial_worker_count), active_workers has
\* grown by exactly their number (it equals initial + gap workers minus the
\* results received), and initial plus gap workers are at most
\* max_worker_count.
C9_GapWorkersBounded ==
    hist.gap_acted >= 1
    => /\ hist.gap_spawned <= max_worker_count - orch.initial_worker_count
       /\ hist.gap_spawned <= 3
       /\ orch.active_workers + orch.all_results
            = orch.initial_worker_count + hist.gap_spawned
       /\ tasks.gap <= hist.gap_spawned
       /\ orch.initial_worker_count + hist.gap_spawned <= max_worker_count

\* a gap request was handled with four initial workers: one gap worker
\* was spawned and is counted
C9_Witness ==
    /\ hist.gap_acted = 1
    /\ orch.initial_worker_count = 4
    /\ hist.gap_spawned = 1
    /\ orch.active_workers = 2
    /\ orch.all_results = 3

\* C10: every SubQuestion made from the plan, from a gap reply or from the
\* follow-up generation has an assigned_worker that is the name of a
\* configured worker, and a session whose plan names an unknown role ends
\* with an error and dispatches nothing.
C10_AssignedWorkerIsAName ==
    /\ \A q \in hist.sub_questions : q.assigned_worker \in WorkerNames
    /\ orch.result = "worker_role_not_found"
         => orch.session = "error" /\ orch.initial_worker_count = 0

\* C6: a query makes at most max_tool_turns chat requests and the loop never
\* goes past iteration max_tool_turns + 1, where it returns; when it returns
\* at the cap after tool results were folded, the text returned is Ok and
\* holds the results of every folded iteration, in order.
C6_IterationCap ==
    /\ lm.rounds <= lm.max_tool_turns
    /\ lm.iteration <= lm.max_tool_turns + 1
    /\ lm.iteration = lm.max_tool_turns + 1 => lm.pc = "done"
    /\ (lm.pc = "done" /\ lm.iteration > lm.max_tool_turns /\ folded # <<>>)
       => /\ lm.ret.kind = "ok"
          /\ Len(lm.ret.text) = 3
          /\ Len(lm.ret.text[2]) = Len(folded)
          /\ \A i \in 1..Len(folded) : lm.ret.text[2][i].tool_results = folded[i]

\* a query with max_tool_turns = 3 folded tool results in every iteration
\* and returned at the cap
C6_Witness ==
    /\ lm.pc = "done"
    /\ lm.max_tool_turns = 3
    /\ lm.iteration = 4
    /\ lm.rounds = 3
    /\ Len(folded) = 3

\* C7: a call that received a response ends in exactly one of ignored,
\* success and error; a status in the acceptable list is ignored even when
\* the error list holds it too, a status in the error list and not in the
\* acceptable list is an error even when it is expected, and nothing else is
\* ignored.
C7_StatusPolicy ==
    (http.pc = "done" /\ http.status_code # NoStatus)
    => LET acceptable == status_in_list(http.status_code, http.tool.acceptable_status)
           error == status_in_list(http.status_code, http.tool.error_status)
       IN  /\ http.outcome \in {"ignored", "success", "error"}
           /\ acceptable => http.outcome = "ignored"
           /\ (~acceptable /\ error) => http.outcome = "error"
           /\ http.outcome = "ignored" => acceptable

\* a 404 that the tool lists as acceptable and as an error was ignored
C7_Witness ==
    /\ http.pc = "done"
    /\ http.status_code = 404
    /\ status_in_list(404, http.tool.acceptable_status)
    /\ status_in_list(404, http.tool.error_status)
    /\ http.outcome = "ignored"


\* C19: the MemoryStats that get_stats returned when a clear() had returned
\* and no row had been inserted since are zero in the total count and in
\* every per-type count.
C19_ClearThenStatsIsZero ==
    \A t \in MemTasks :
        (mtask[t].ret = "stats" /\ mtask[t].after_clear)
        => /\ mtask[t].stats.total_count = 0
           /\ \A mt \in MemoryTypes : mtask[t].stats.by_type[mt] = 0

\* a store put a row in, clear() removed it, and get_stats then returned
C19_Witness ==
    /\ calls = 3
    /\ \E t \in MemTasks : mtask[t].ret = "stats" /\ mtask[t].after_clear
    /\ \E t \in MemTasks : mtask[t].ret = "ok" /\ mtask[t].ret_id = NoId
    /\ now = 1

\* C20: the iteration counter of a context is the number of next_iteration
\* calls since it was made (0 at first, one more per call); get_notes is the
\* sequence of the notes added since the context was made or its notes were
\* cleared, in the order they were added, each tagged with the counter at
\* the time it was added; get_state of a key is the last value set for it,
\* and nothing for a key never set.
C20_CounterNotesState ==
    /\ dctx.iteration = ctx_log.iterations
    /\ get_notes(dctx) = ctx_log.notes
    /\ \A k \in StateKeys :
         get_state(dctx, k) = IF ctx_log.last_set[k] = "unset" THEN None
                              ELSE Some(ctx_log.last_set[k])
    /\ get_state(dctx, "nonexistent") = None

\* a note was added at iteration 0 and another after next_iteration, and a
\* key was set
C20_Witness ==
    /\ Len(get_notes(dctx)) = 2
    /\ get_notes(dctx)[1].iteration = 0
    /\ get_notes(dctx)[2].iteration = 1
    /\ get_notes(dctx)[1].note_type = "Observation"
    /\ get_notes(dctx)[2].note_type = "ToolResult"
    /\ ctx_ops = 4
    /\ prompt.caller = "execute_worker"

\* the verdict holds the letters of "approved" in a row, in either case
HoldsApprovedAnyCase(v) ==
    \E i \in 1..Len(v) :
        /\ i + 7 <= Len(v)
        /\ \A j \in 1..8 :
             v[i + j - 1] \in {<<"A", "P", "P", "R", "O", "V", "E", "D">>[j],
                               <<"a", "p", "p", "r", "o", "v", "e", "d">>[j]}

\* C17: at most max_refinement_iterations debates are held; a debate whose
\* verdict holds APPROVED in any case is the last one and is followed by no
\* refiner call; every other debate that did not fail is followed by a
\* refiner call on the output the debate was about and on its verdict, and
\* the refiner's reply is the output of the next debate; the document loop
\* gets the current output, which is the last reply of the refiner, or the
\* combined output when the refiner was never called.
C17_RefinementLoop ==
    /\ Len(refn.debated) <= refn.max_iterations
    /\ Len(refn.refined) <= Len(refn.debated)
    /\ \A i \in 1..Len(refn.debated) :
         /\ refn.debated[i].output =
              IF i = 1 THEN refn.initial_output ELSE refn.refined[i - 1].reply
         /\ HoldsApprovedAnyCase(refn.debated[i].verdict)
              => /\ i = Len(refn.debated)
                 /\ Len(refn.refined) = i - 1
                 /\ refn.pc \in {"leave", "document"}
         /\ (~HoldsApprovedAnyCase(refn.debated[i].verdict) /\ i < Len(refn.debated))
              => Len(refn.refined) >= i
    /\ \A i \in 1..Len(refn.refined) :
         /\ refn.refined[i].output = refn.debated[i].output
         /\ refn.refined[i].debate_result = refn.debated[i].verdict
    /\ refn.pc # "none"
         => refn.current_output =
              IF refn.refined = <<>> THEN refn.initial_output
              ELSE refn.refined[Len(refn.refined)].reply
    /\ refn.pc = "document"
         => /\ refn.document_input = refn.current_output
            /\ \/ refn.debated # <<>>
                    /\ HoldsApprovedAnyCase(refn.debated[Len(refn.debated)].verdict)
               \/ Len(refn.refined) = refn.max_iterations
    /\ refn.pc = "refine" => ~HoldsApprovedAnyCase(refn.debate_result)

\* the first debate was refined and the second verdict, "Not Approved",
\* ended the loop with the refiner's first reply as the document's input
C17_Witness ==
    /\ refn.pc = "document"
    /\ refn.max_iterations = 3
    /\ Len(refn.debated) = 2
    /\ Len(refn.refined) = 1
    /\ refn.debated[2].verdict[1] = "N"
    /\ refn.document_input = "refined_a"

\* C13: while the dispatcher receives, every initial or gap worker whose
\* query failed has its result, with the answer "Error: {e}", in the channel
\* or among the collected results; the dispatch loop ends with every result
\* collected, those of the failed workers included, and they are what is
\* combined; the session fails only before a worker was dispatched or after
\* the results were combined.
C13_WorkerFailureIsAResult ==
    /\ ReceiversAlive => hist.failures = chan.rx_errors + orch.error_results
    /\ chan.rx_errors <= chan.rx
    /\ orch.error_results <= orch.all_results
    /\ (orch.session \in {"joining", "combining"} \/ hist.combined)
         => /\ orch.error_results = hist.failures
            /\ orch.all_results = orch.initial_worker_count + hist.gap_spawned
    /\ orch.session = "error"
         => \/ hist.combined
            \/ orch.all_results = 0 /\ tasks.initial = 0 /\ hist.sub_questions = {}

\* a session of three workers, one of which failed, returned its document
C13_Witness ==
    /\ orch.session = "returned"
    /\ orch.result = "document"
    /\ orch.initial_worker_count = 3
    /\ orch.all_results = 3
    /\ orch.error_results = 1
    /\ hist.failures = 1
    /\ hist.combined

\* C16: a session that returned "Unable to decompose query into
\* sub-questions." has stored no Plan, has spawned no worker, no supervisor
\* and no follow-up task, and has combined nothing; and a session that went
\* on to dispatch workers had a plan with at least one sub-question.
C16_EmptyPlan ==
    /\ orch.result = "unable_to_decompose"
         => /\ orch.session = "returned"
            /\ ~hist.plan_store
            /\ ~hist.combined
            /\ sup = NoSupervisor
            /\ \A k \in DOMAIN tasks : tasks[k] = 0
            /\ hist.sub_questions = {}
            /\ orch.all_results = 0
            /\ hist.late_actor = "none"
    /\ orch.session \in {"workers", "joining", "combining"}
         => orch.initial_worker_count > 0
    /\ hist.plan_store => orch.initial_worker_count > 0

\* the lead's reply was [] and the session has returned the literal
C16_Witness ==
    /\ orch.session = "returned"
    /\ orch.result = "unable_to_decompose"
    /\ smem.shared
    /\ orch.initial_worker_count = 0

\* C11: every memory and every tool-call audit record created during a
\* research session by that session's own tasks (the Plan, the memories
\* stored through the memory_store tool, the audit rows) carries that
\* session's query_id, also when the tool executor was locked by another
\* task at the moment the session started.
C11_RecordsCarrySessionQueryId ==
    /\ \A m \in rsess.memories :
         m.by_session = m.during => m.query_id = QueryIdOf(m.during)
    /\ \A i \in 1..Len(tool_calls) :
         tool_calls[i].by_session = tool_calls[i].during
            => tool_calls[i].query_id = QueryIdOf(tool_calls[i].during)

\* the rows of the audit table that were written for the call of client c
RowsOfCall(c) == {i \in 1..Len(tool_calls) : tool_calls[i].serial = client[c].serial}

\* the tool_type column execute_http_tool, execute_mcp_tool and
\* execute_builtin_tool write
TypeOfOperation(op) ==
    CASE op = "execute_http_tool" -> "http"
      [] op = "execute_mcp_tool" -> "mcp"
      [] op = "execute_builtin_tool" -> "builtin"
      [] OTHER -> "none"

C14_ToolCallNeverFailsQuery ==
    \A c \in Clients : client[c].query # "Err"

\* the type the catalog of the configuration records for a tool name
CatalogType(tool_name) ==
    CASE tool_name = <<"memory_store">> -> "builtin"
      [] tool_name = <<"weather">> -> "http"
      [] tool_name = <<"fs", "read">> -> "mcp"
      [] OTHER -> "none"

\* the call of client c is dispatched as the catalog says and without error
DispatchedByCatalog(c) ==
    LET tool_type == CatalogType(client[c].call.tool_name.str)
    IN /\ client[c].query # "Err"
       /\ client[c].raw_result = "none"
       /\ client[c].pc \in {"dispatch", "rate_limit", "run"}
            => client[c].actual_tool_type = tool_type
       /\ client[c].pc \in {"rate_limit", "run"}
            => TypeOfOperation(client[c].op) = tool_type

DelayOfCall(k) == IF k <= 5 THEN <<0, 100, 250, 500, 1000>>[k] ELSE 1500

\* C15: for the calls to one tool that fall in the same rate-limit window,
\* whichever client makes them, the delay computed for the k-th call is
\* the k-th value of 0, 100, 250, 500, 1000, 1500, 1500, .. and so is
\* non-decreasing in k; a call that comes more than 60 s after the call
\* before it gets delay 0 and leaves call_count at 1.
C15_DelayNonDecreasingInWindow ==
    \A key \in UsageKeys :
       LET window == rate_log[key].window
       IN /\ \A k \in 1..Len(window) : window[k] = DelayOfCall(k)
          /\ \A j, k \in 1..Len(window) : j <= k => window[j] <= window[k]
          /\ rate_log[key].after_gap =>
                window = <<0>> /\ exec.tool_usage[key].call_count = 1

\* one tool was called six times in one window, the sixth call at the cap,
\* and the two clients were both in a query
C15_Witness ==
    /\ \E key \in UsageKeys :
          Len(rate_log[key].window) = 6 /\ rate_log[key].window[6] = 1500
    /\ \A c \in Clients : client[c].session > 0

\* C21: a call that received a response whose status matches no pattern of
\* the acceptable list and no pattern of the expected list ends in an
\* error, whether the tool's error list is empty or not.
C21_UnexpectedStatusIsError ==
    (/\ http.pc = "done"
     /\ http.status_code # NoStatus
     /\ ~status_in_list(http.status_code, http.tool.acceptable_status)
     /\ ~status_in_list(http.status_code, http.tool.expected_status))
    => http.outcome = "error"

\* the row of table memories with this id
RowOf(rows, id) == CHOOSE m \in rows : m.id = id

\* the lookup of update_or_store by task t: the update path is taken exactly
\* when the metadata has a query_id and a row of the same (type, created_by,
\* query_id) exists, and then with the id of such a row
C22_Lookup(t) ==
    (mtask[t].pc = "idle" /\ mtask'[t].pc \in {"uo_update", "uo_store"})
    => LET same == {m \in memories :
                       /\ m.memory_type = mtask'[t].memory_type
                       /\ m.created_by = mtask'[t].created_by
                       /\ m.query_id = mtask'[t].query_id}
       IN /\ memories' = memories /\ vec_memories' = vec_memories
          /\ mtask'[t].pc = "uo_update"
                <=> (mtask'[t].query_id # NoQid /\ same # {})
          /\ mtask'[t].pc = "uo_update" => mtask'[t].id \in {m.id : m \in same}

\* the update path of task t: the row found has the new content, metadata
\* and timestamp, then the new embedding; its id is returned; no row is
\* added or removed and no other row changes
C22_Update(t) ==
    /\ (mtask[t].pc = "uo_update" /\ mtask'[t].pc = "uo_vec")
       => /\ {m.id : m \in memories'} = MemIds
          /\ vec_memories' = vec_memories
          /\ \A m \in memories : m.id # mtask[t].id => m \in memories'
          /\ mtask[t].id \in MemIds =>
                LET new == RowOf(memories', mtask[t].id)
                    old == RowOf(memories, mtask[t].id)
                IN /\ new.content = mtask[t].content
                   /\ new.query_id = mtask[t].query_id
                   /\ new.created_at = now'
                   /\ new.memory_type = old.memory_type
                   /\ new.created_by = old.created_by
    /\ (mtask[t].pc = "uo_vec" /\ mtask'[t].ret = "ok")
       => /\ mtask'[t].ret_id = mtask[t].id
          /\ memories' = memories
          /\ {v.memory_id : v \in vec_memories'} = VecIds
          /\ \A v \in vec_memories' :
                v.memory_id = mtask[t].id => v.embedding = mtask[t].content
          /\ \A v \in vec_memories : v.memory_id # mtask[t].id => v \in vec_memories'

\* the insert path of task t: one new row under a fresh id with the fields
\* of the call, as store inserts it
C22_Insert(t) ==
    (mtask[t].pc = "uo_store" /\ mtask'[t].pc = "st_vec")
    => /\ mtask'[t].id \notin MemIds
       /\ memories' = memories \cup
             {[id |-> mtask'[t].id, memory_type |-> mtask[t].memory_type,
               content |-> mtask[t].content, query_id |-> mtask[t].query_id,
               created_by |-> mtask[t].created_by, created_at |-> now']}

\* C22: update_or_store with a query_id in its metadata, when a row of the
\* same (type, created_by, query_id) exists, overwrites that row's content,
\* metadata, created_at and embedding, returns that row's id and adds no
\* row; when there is no such row, or no query_id, it inserts a new row
\* as store does. (The row is the one the lookup found; the update
\* statements change it where it is still in the table.)
C22_UpdateOrStore ==
    [][\A t \in MemTasks : C22_Lookup(t) /\ C22_Update(t) /\ C22_Insert(t)]_vars

\* a Feedback row was overwritten with another content, and its embedding
\* is about to be
C22_Witness ==
    \E t \in MemTasks :
       /\ mtask[t].pc = "uo_vec"
       /\ \E m \in memories :
             /\ m.id = mtask[t].id
             /\ m.memory_type = "feedback"
             /\ m.content = mtask[t].content
       /\ \E v \in vec_memories :
             v.memory_id = mtask[t].id /\ v.embedding # mtask[t].content

\* the step is a store or update_or_store of task t that ends with the
\* error of the embedding service
EmbeddingFailedFor(t) ==
    /\ mtask'[t] = Returned("embedding error", NoId)
    /\ \/ mtask[t].pc \in {"uo_store", "uo_update"}
       \/ /\ mtask[t].pc = "idle"
          /\ calls' = calls + 1
          /\ \A u \in MemTasks \ {t} : mtask'[u] = mtask[u]

\* C23: a store or update_or_store whose embedding generation fails returns
\* an error and leaves memories and vec_memories as they were: no row is
\* inserted, and the row an update was aimed at keeps its content,
\* metadata, timestamp and embedding.
C23_EmbeddingFailureChangesNothing ==
    [][\A t \in MemTasks :
          EmbeddingFailedFor(t) =>
             memories' = memories /\ vec_memories' = vec_memories]_vars

\* an update_or_store that had found its row failed on the embedding, and
\* the row and its embedding are in the tables
C23_Witness ==
    \E t \in MemTasks :
       /\ mtask[t] = Returned("embedding error", NoId)
       /\ \E m \in memories :
             /\ m.memory_type = "feedback"
             /\ \E v \in vec_memories : v.memory_id = m.id /\ v.embedding = m.content

\* the delays of ollama.rs:389-399, in seconds, in the order they are slept
ChatDelays == <<2, 5, 10, 15, 20, 25, 30, 35, 40>>

\* C24: a chat request is tried at most 10 times; the wait after the k-th
\* failure (k < 10) is the k-th of 2, 5, 10, 15, 20, 25, 30, 35, 40 seconds;
\* the error comes back after the 10th failure with no wait after it.
C24_ChatRetriesAndDelays ==
    /\ chat.attempt <= ChatAttempts
    /\ Len(chat.last_error) <= ChatAttempts
    /\ Len(chat.slept) <= Len(ChatDelays)
    /\ \A k \in 1..Len(chat.slept) : chat.slept[k] = ChatDelays[k]
    /\ Len(chat.slept) \in {Len(chat.last_error), Len(chat.last_error) - 1}
    /\ chat.pc = "send" => Len(chat.slept) = Len(chat.last_error)
    /\ chat.response = "Some" => Len(chat.slept) = Len(chat.last_error)
    /\ chat.response = "Err" =>
         /\ chat.pc = "done"
         /\ Len(chat.last_error) = ChatAttempts
         /\ Len(chat.slept) = ChatAttempts - 1

\* the 10th attempt has failed and the error is returned after nine waits
C24_Witness ==
    /\ chat.pc = "done"
    /\ chat.response = "Err"
    /\ Len(chat.last_error) = 10
    /\ chat.slept = ChatDelays

\* the critic's replies that are the word APPROVED once the white space
\* around it is dropped and its letters are upper-cased
SaysApproved(criticism) ==
    criticism \in { <<"A", "P", "P", "R", "O", "V", "E", "D">>,
                    <<" ", "a", "p", "p", "r", "o", "v", "e", "d", " ">> }

\* the last draft the writer produced, the empty text when it produced none
LastDraft ==
    IF doc.written = <<>> THEN EmptyDocument
    ELSE doc.written[Len(doc.written)].document

\* the writer is called at most max_document_iterations times, no draft is
\* written after an approval, and the loop is left before its bound only on
\* an approval of the last draft
C29_LoopBoundAndEarlyStop ==
    /\ Len(doc.written) <= doc.max_iterations
    /\ Len(doc.reviewed) \in {Len(doc.written), Len(doc.written) - 1}
    /\ \A i \in 1..Len(doc.reviewed) :
         /\ doc.reviewed[i].document = doc.written[i].document
         /\ SaysApproved(doc.reviewed[i].criticism) =>
              /\ i = Len(doc.written)
              /\ doc.pc \in {"exit", "returned"}
         /\ (~SaysApproved(doc.reviewed[i].criticism) /\ i = Len(doc.written)) =>
              doc.pc \in {"write", "error", "returned"}
    /\ (doc.pc \in {"exit", "returned"} /\ Len(doc.written) < doc.max_iterations) =>
         /\ Len(doc.reviewed) = Len(doc.written)
         /\ doc.reviewed # <<>>
         /\ SaysApproved(doc.reviewed[Len(doc.reviewed)].criticism)
    /\ (doc.pc = "returned" /\ doc.reviewed # <<>>
          /\ ~SaysApproved(doc.reviewed[Len(doc.reviewed)].criticism)) =>
         Len(doc.written) = doc.max_iterations

\* C29 (amended): the document loop makes at most max_document_iterations
\* writer calls and stops early exactly when the critic's reply, trimmed and
\* upper-cased, equals APPROVED; when neither the writer nor the critic
\* failed it returns the last draft produced, with the References section
\* appended after the loop has exited if the draft cites a source and as it
\* is if the draft cites none.
C29_DocumentLoop ==
    /\ C29_LoopBoundAndEarlyStop
    /\ doc.pc = "returned" =>
         /\ doc.final_document.text = LastDraft.text
         /\ doc.final_document.sources = LastDraft.sources
         /\ doc.final_document.references = (LastDraft.sources # {})
    /\ doc.pc = "error" => doc.final_document = EmptyDocument

\* the critic has written "APPROVED: ok" about the first draft and a bare
\* approval about the second, and the second draft is returned with its
\* References section
C29_Witness ==
    /\ doc.pc = "returned"
    /\ doc.max_iterations = 3
    /\ Len(doc.written) = 2
    /\ ~SaysApproved(doc.reviewed[1].criticism)
    /\ contains(doc.reviewed[1].criticism, APPROVED)
    /\ SaysApproved(doc.reviewed[2].criticism)
    /\ doc.final_document.references

\* C29 as the specification states it: the returned document is the last
\* draft with the References section appended.
C29_AsStated ==
    /\ C29_LoopBoundAndEarlyStop
    /\ doc.pc = "returned" =>
         /\ doc.final_document.text = LastDraft.text
         /\ doc.final_document.references

\* C30: in every document iteration after the first, the input given to the
\* writer contains the critic's critique of the previous draft, together
\* with the research content and the prior draft.
C30_WriterSeesCritique ==
    \A i \in 2..Len(doc.written) :
      LET labels == {doc.written[i].prompt[k].label :
                       k \in 1..Len(doc.written[i].prompt)}
      IN  /\ "research_content" \in labels
          /\ "previous_document" \in labels
          /\ doc.written[i].previous_document = doc.written[i - 1].document
          /\ "criticism" \in labels

\* C25: each follow-up worker spawned by the background refinement task
\* counts toward active_workers and sends its result on the result channel,
\* so the dispatch loop is not left while a follow-up worker has yet to
\* report; at most 4 follow-up workers are spawned.
C25_FollowUpWorkersAreAwaited ==
    /\ tasks.follow_up <= 4
    /\ orch.session = "workers" =>
         orch.active_workers >= tasks.initial + tasks.gap + tasks.follow_up + chan.rx
    /\ orch.session \in {"joining", "combining"} => tasks.follow_up = 0

\* C26: once the supervisor is back from a gap detection, its one-shot latch
\* is set only when gap questions were parsed from the reply and handed to
\* the gap channel; NO_GAPS, an empty or unparsable reply and an error of
\* the model leave it unset.
C26_LatchOnlyAfterGapQuestions ==
    (sup.gap_workers_requested /\ sup.pc \in {"waiting", "analysis"})
    => \E q \in hist.sub_questions : q.source = "gap"

\* (initial_worker_count + 1) / 2
MidpointOf(initial_worker_count) == (initial_worker_count + 1) \div 2

\* C27: the supervisor asks for gaps and sends a gap request only in a tick
\* whose latest completed_count is at least the midpoint threshold
\* (initial_worker_count + 1) / 2 and above 0, with initial_worker_count
\* below max_worker_count; no gap message is sent before the midpoint has
\* been recorded in the memory.
C27_GapRequestOnlyPastMidpoint ==
    /\ sup.pc \in {"gap_query", "gap_send"} =>
         /\ sup.completed_count >= MidpointOf(orch.initial_worker_count)
         /\ sup.completed_count > 0
         /\ orch.initial_worker_count < max_worker_count
    /\ (orch.session \in {"workers", "joining", "combining"}
          /\ (hist.gap_sent > 0 \/ sup.pc \in {"gap_query", "gap_send"})) =>
         /\ smem.completed_count >= MidpointOf(orch.initial_worker_count)
         /\ smem.completed_count > 0

\* a gap request was sent in a session of three initial workers when two of
\* them had been recorded as completed
C27_Witness ==
    /\ hist.gap_sent = 1
    /\ orch.session = "workers"
    /\ orch.initial_worker_count = 3
    /\ sup.completed_count = 2
    /\ smem.completed_count = 2

\* C28: the result list holds the results in the order they arrived on the
\* result channel, which is the order the workers completed in, and the
\* completed_count of every progress Context memory is the number of results
\* received up to the result it was written after.
C28_ResultsInArrivalOrder ==
    /\ disp.all_results \o disp.rx = disp.sent
    /\ \A i \in 1..Len(disp.progress) :
         LET completed_count == disp.progress[i].metadata.completed_count
         IN  /\ completed_count \in 1..Len(disp.all_results)
             /\ disp.all_results[completed_count] = disp.progress[i].after
             /\ disp.sent[completed_count] = disp.progress[i].after
             /\ i > 1 => disp.progress[i - 1].metadata.completed_count < completed_count

\* three results were received, the third worker's first and the first
\* worker's last, and the progress memory of the last one says 3
C28_Witness ==
    /\ Len(disp.all_results) = 3
    /\ disp.all_results[1] = WorkerResult(3)
    /\ disp.all_results[3] = WorkerResult(1)
    /\ disp.progress # <<>>
    /\ disp.progress[Len(disp.progress)].metadata.completed_count = 3

\* C32: a call of execute_http_tool for a tool whose method is PUT, PATCH or
\* DELETE ends in one of the outcomes ignored, success and error: no
\* supported method makes the call abort its task.
C32_SupportedMethodsEndInAnOutcome ==
    (http.pc = "done" /\ http.tool.method \in {"PUT", "PATCH", "DELETE"})
    => http.outcome \in {"ignored", "success", "error"}

\* worker dispatch has returned to research()
DispatchReturned == orch.session = "combining" \/ hist.combined

\* C33: once worker dispatch has returned the supervisor task is aborted:
\* while the results are combined, debated and written up, and after, it
\* makes no tick, no request to the model and no Feedback write.
C33_SupervisorStopsWithDispatch ==
    /\ [](DispatchReturned => sup.pc \in {"none", "aborted"})
    /\ [][DispatchReturned => (sup' = sup /\ hist'.late_actor # "supervisor")]_vars

\* dispatch has returned in a session whose supervisor had ticked, asked
\* the model and set its latch: the supervisor is aborted
C33_Witness ==
    /\ orch.session = "combining"
    /\ sup.pc = "aborted"
    /\ sup.iteration = 2
    /\ sup.gap_workers_requested

\* C34: the ids assigned by store are strictly increasing over the lifetime
\* of the store: an INSERT of store_memory gets an id greater than every id
\* a store or update_or_store has returned before, also after a clear().
C34_IdsStrictlyIncreasing ==
    [][\A t \in MemTasks :
         (mtask[t].pc # "st_vec" /\ mtask'[t].pc = "st_vec")
         => \A u \in MemTasks :
              (mtask[u].ret = "ok" /\ mtask[u].ret_id # NoId)
              => mtask[u].ret_id < mtask'[t].id]_vars

\* the workers the loop has counted: the initial sub-questions and the gap
\* worker it spawned
CountedWorkers ==
    1..(disp.total_initial_workers + (IF disp.gap_workers_spawned THEN 1 ELSE 0))

\* C35: worker dispatch returns exactly when every counted worker has
\* reported: when every spawned worker task ends, the loop is left in the
\* end; active_workers is always the number of workers counted less the
\* number of results received; and on return the result list holds exactly
\* one result for each initial sub-question and each spawned gap worker.
C35_DispatchReturnsWhenAllReported ==
    /\ [](disp.active_workers = Cardinality(CountedWorkers) - Len(disp.all_results))
    /\ [](disp.pc = "left" =>
            /\ Len(disp.all_results) = Cardinality(CountedWorkers)
            /\ \A q \in CountedWorkers :
                 \E i \in 1..Len(disp.all_results) : disp.all_results[i] = WorkerResult(q))
    /\ <>(disp.pc = "left")

\* the lines read that are not blank and did not parse
UnparsableRead == mcp_read.read["broken_json"] + mcp_read.read["debug"]

\* the reader returns the first line that parses, and never goes on after
\* the end of the stream
C31_FirstJsonLineIsReturned ==
    /\ mcp_read.pc = "reading" => (mcp_read.read["json"] = 0 /\ mcp_read.read["eof"] = 0)
    /\ mcp_read.pc = "ok" => (mcp_read.last = "json" /\ mcp_read.read["json"] = 1)
    /\ mcp_read.read["eof"] = 1 =>
         (mcp_read.pc = "err" /\ mcp_read.error = "disconnected unexpectedly")

\* C31 (amended): reading an MCP response skips blank and non-JSON lines and
\* returns the first line that parses as JSON; it fails with an error when
\* the stream ends or a read fails, when an 11th line that is not blank does
\* not parse, and when a line that starts with { or [ does not parse after
\* more than 5 such lines; blank lines are not counted.
C31_ReadMcpResponse ==
    /\ C31_FirstJsonLineIsReturned
    /\ mcp_read.attempts <= 11
    /\ mcp_read.pc \in {"reading", "ok"} =>
         (mcp_read.attempts = UnparsableRead /\ UnparsableRead <= 10)
    /\ mcp_read.pc = "err" =>
         \/ mcp_read.last = "eof"
         \/ mcp_read.error = "read error"
         \/ UnparsableRead = 11
         \/ mcp_read.last = "broken_json" /\ UnparsableRead > 6

\* the reader gave up on the 11th line that did not parse, having skipped a
\* blank line on the way
C31_Witness ==
    /\ mcp_read.pc = "err"
    /\ mcp_read.error = "too many attempts"
    /\ UnparsableRead = 11
    /\ mcp_read.read["blank"] = 1

\* C31 as the specification states it: the reader gives up once a fixed
\* number of lines that do not parse, 11 of them, has been read.
C31_AsStated ==
    /\ C31_FirstJsonLineIsReturned
    /\ mcp_read.pc = "reading" => UnparsableRead + mcp_read.read["blank"] <= 11

\* the positions of the tool calls in what a parse attempt gave
CallPositions(parsed) ==
    {i \in 1..Len(parsed.items) : parsed.items[i] \in {"call_a", "call_b"}}

\* the attempts of the reply that hold a tool call
AttemptsWithCalls ==
    {a \in 1..Len(parse.parse_attempts) : CallPositions(parse.parse_attempts[a]) # {}}

\* C36: in one iteration each tool call of the reply is executed at most
\* once and in the order of the reply's array, also when several parse
\* strategies parse the reply: every executed call comes from the first
\* attempt that holds a call, and no later attempt is tried.
C36_EachCallExecutedOnce ==
    LET results == parse.tool_results
    IN  /\ \A k \in 1..Len(results) :
             /\ AttemptsWithCalls # {}
             /\ \A a \in AttemptsWithCalls : results[k].attempt <= a
             /\ results[k].item \in CallPositions(parse.parse_attempts[results[k].attempt])
             /\ results[k].tool_call =
                  parse.parse_attempts[results[k].attempt].items[results[k].item]
             /\ k > 1 => results[k - 1].item < results[k].item
        /\ parse.tools_executed = (results # <<>>)
        /\ parse.pc = "done" =>
             IF AttemptsWithCalls = {} THEN results = <<>>
             ELSE {results[k].item : k \in 1..Len(results)} =
                    CallPositions(parse.parse_attempts[
                      CHOOSE a \in AttemptsWithCalls : \A b \in AttemptsWithCalls : a <= b])

\* the de-fenced and the raw text both parse as the array of two calls and
\* the extracted object is the first call: two calls were executed, both
\* from the first attempt
C36_Witness ==
    /\ parse.pc = "done"
    /\ parse.parse_attempts = <<JsonArray(<<"call_a", "call_b">>),
                                JsonArray(<<"call_a", "call_b">>),
                                JsonObject("call_a")>>
    /\ Len(parse.tool_results) = 2
    /\ parse.tool_results[1].tool_call = "call_a"
    /\ parse.tool_results[2].tool_call = "call_b"

\* C37: the agent_name of each tool-call audit record is the name of the
\* agent whose LM client issued the call, also when several workers that
\* share the one tool executor run at the same time.
C37_AuditRowNamesItsAgent ==
    \A i \in 1..Len(agents.tool_calls) :
       agents.tool_calls[i].agent_name = agents.tool_calls[i].by

InFlight(c) == mcp.pc[c] \in {"sent", "reading"}

WaitsFor(t, m) ==
    /\ locks.steps[t] # <<>>
    /\ Head(locks.steps[t]) = [op |-> "lock", m |-> m]
    /\ locks.holder[m] # "free"

\* C39: no interleaving of workers, debate agents, the supervisor and the
\* orchestrator deadlocks on the executor's mutex, the MCP connections'
\* mutex, the shared memory's mutex and the rate limiter's mutex: no task
\* waits for a mutex it holds, and no set of tasks waits in a cycle (each
\* for a mutex held by a task of the set).
C39_NoDeadlockOnTheMutexes ==
    /\ \A t \in LockTasks, m \in Mutexes : WaitsFor(t, m) => locks.holder[m] # t
    /\ \A S \in SUBSET LockTasks :
          S # {} => \E t \in S : \A m \in Mutexes : WaitsFor(t, m) => locks.holder[m] \notin S

\* a worker waits for the executor, whose holder waits for the shared memory,
\* which the supervisor holds, while the orchestrator is at its try_lock
C39_Witness ==
    /\ WaitsFor("w1", "executor")
    /\ locks.holder["executor"] = "w2"
    /\ WaitsFor("w2", "db")
    /\ locks.holder["db"] = "supervisor"
    /\ locks.steps["orchestrator"] # <<>>
    /\ Head(locks.steps["orchestrator"]).op = "try_lock"
====
